---- MODULE Spec2Model ----
(***************************************************************************)
(* Ghost-zone / boundary-condition exchange (set_bvals_mhd.c) and the      *)
(* last steps of the CTU integrators (integrate_2d.c, integrate_3d_ctu.c)  *)
(* of Athena: half-step density, constrained transport, source terms, flux *)
(* update and averaging, as state machines.                                *)
(*                                                                         *)
(* Build modelled: MHD defined, BAROTROPIC undefined (E present),          *)
(* NSCALARS = 1, so that every branch of the pack/unpack lists is present. *)
(* MPI_PARALLEL is defined in the specification Spec and undefined in the  *)
(* specification SpecSerial.  SHEARING_BOX, SHEARING_BOX_EVOLUTION and the *)
(* enrolled functions (boundary functions, StaticGravPot) are fields of    *)
(* cfg.                                                                    *)
(*                                                                         *)
(* A cell is the tuple <<i, j, k>>; c[d] is its index along direction d.   *)
(*                                                                         *)
(* The kernels of the integrators (corner EMFs, flux application, gravity  *)
(* corrections of the face states, H-correction, scratch arrays) have      *)
(* specifications of their own: SpecEmf, SpecRot, SpecGrav, SpecHcorr and  *)
(* SpecScratch.                                                            *)
(***************************************************************************)
EXTENDS Integers, Sequences, FiniteSets, TLC

VARIABLES
  cfg,       \* the run: process grid, tile sizes, boundary flags, build
  U,         \* U[r][c]   : cell-centered Gas structure of rank r
  B1i,       \* B1i[r][c] : x1-interface field of rank r
  B2i,       \* B2i[r][c]
  B3i,       \* B3i[r][c]
  pc,        \* pc[r]     : position of rank r in set_bvals_mhd (0: in the integrator)
  ncall,     \* ncall[r]  : completed set_bvals_mhd calls of rank r
  posted,    \* posted[r] : receive requests rank r has posted and not yet waited on
  chan,      \* chan[<<s, t>>] : messages sent by s to t, not yet matched
  recv_buf,  \* recv_buf[r]
  send_buf,  \* send_buf[r]
  insend,    \* insend[r] : rank r is blocked inside MPI_Send
  log,       \* log[r]    : the operations rank r performed in the current call
  snap,      \* snap[r]   : the grid of rank r when its first call returned
  sent,      \* sent[r]   : what the sender's cells held for the message r just unpacked,
             \*             and B1i of r before the unpacking
  ctface,    \* ctface[r] : the interfaces the last CT update of rank r wrote, with the values
  boot,      \* boot[r]   : set_bvals_mhd_init of rank r: exit status, apply_ix?/apply_ox?,
             \*             size of send_buf and recv_buf
  step,      \* step[r]   : what the last integrator step of rank r did and returned
  prev,      \* prev[r]   : the normal interface array before the last boundary function
  kern,      \* one kernel of the integrators on its own: its inputs and what it computed
  scratch    \* the file-scope state of an integrator: scratch arrays, etah, the callback

vars == <<cfg, U, B1i, B2i, B3i, pc, ncall, posted, chan, recv_buf, send_buf,
          insend, log, snap, sent, ctface, boot, step, prev, kern, scratch>>

(***************************************************************************)
(* Bounds of the model.                                                    *)
(***************************************************************************)
nghost == 2
ExtraZones == 1
MaxCalls == 2

Dirs == {1, 2, 3}
None == [none |-> TRUE]

(***************************************************************************)
(* Grid geometry.                                                          *)
(***************************************************************************)
NRanks(c) == c.NGrid[1] * c.NGrid[2] * c.NGrid[3]
Ranks == 0..(NRanks(cfg) - 1)

get_myGridIndex(r) ==
  << r % cfg.NGrid[1],
     (r \div cfg.NGrid[1]) % cfg.NGrid[2],
     r \div (cfg.NGrid[1] * cfg.NGrid[2]) >>

GridArray(ib, jb, kb) == ib + cfg.NGrid[1] * (jb + cfg.NGrid[2] * kb)

Nx(r, d) == cfg.tile[d][get_myGridIndex(r)[d] + 1]

is_d(r, d) == IF Nx(r, d) > 1 THEN nghost ELSE 0
ie_d(r, d) == is_d(r, d) + Nx(r, d) - 1

Idx(r, d) == IF Nx(r, d) > 1 THEN 0..(Nx(r, d) + 2 * nghost - 1) ELSE {0}
Cells(r) == Idx(r, 1) \X Idx(r, 2) \X Idx(r, 3)

Act(r, t) == is_d(r, t)..ie_d(r, t)
ActUp(r, t) == is_d(r, t)..(IF Nx(r, t) > 1 THEN ie_d(r, t) + 1 ELSE ie_d(r, t))
Ext(r, t) ==
  IF Nx(r, t) > 1 THEN (is_d(r, t) - nghost)..(ie_d(r, t) + nghost)
  ELSE is_d(r, t)..ie_d(r, t)

IsActive(r, c) == \A t \in Dirs : c[t] \in Act(r, t)
MultiZoneDirs(r) == {t \in Dirs : Nx(r, t) > 1}

(***************************************************************************)
(* The Gas structure and the interface arrays.                             *)
(***************************************************************************)
GasComps == <<"d", "M1", "M2", "M3", "B1c", "B2c", "B3c", "E", "s">>
Mn(d) == <<"M1", "M2", "M3">>[d]
Bc(d) == <<"B1c", "B2c", "B3c">>[d]
BcDir(comp) == CASE comp = "B1c" -> 1 [] comp = "B2c" -> 2 [] comp = "B3c" -> 3 [] OTHER -> 0
Bi(g, a) == CASE a = 1 -> g.B1i [] a = 2 -> g.B2i [] OTHER -> g.B3i

GridOf(r) == [U |-> U[r], B1i |-> B1i[r], B2i |-> B2i[r], B3i |-> B3i[r]]

(***************************************************************************)
(* Transverse loop ranges of the boundary functions of pass d.  A          *)
(* direction already processed (t < d) is covered with its ghost zones     *)
(* (il..iu, jl..ju); a direction still to come is covered over its active  *)
(* zones, one more (ju = je+1, ku = ke+1) in the loops over the interface  *)
(* field of that direction.                                                *)
(***************************************************************************)
\* variant: the later passes do not cover the ghost zones of earlier directions
TRange_active(r, d, t, up) == IF up THEN ActUp(r, t) ELSE Act(r, t)
TRange(r, d, t, up) ==
  IF t < d THEN Ext(r, t)
  ELSE IF up THEN ActUp(r, t) ELSE Act(r, t)

InT(r, d, c, a) == \A t \in Dirs \ {d} : c[t] \in TRange(r, d, t, a = t)

(***************************************************************************)
(* Physical boundary policies.  Each operator takes the grid g of rank r   *)
(* and returns the grid after the function; d is the direction of the      *)
(* function (reflect_ix(g, r, 1, f) is reflect_ix1, reflect_ix(g, r, 2, f) *)
(* is reflect_ix2, ...) and f the flag par_geti("grid", "ibc_x?") reads.   *)
(* A loop nest whose reads and writes are disjoint is one function         *)
(* constructor; consecutive loop nests are composed in source order.       *)
(***************************************************************************)
\* variant: the inner loops run one layer further in, is-(nghost-1)..is
InnerGhost_upto_is(r, d, c) == c[d] \in (is_d(r, d) - nghost + 1)..is_d(r, d)
InnerGhost(r, d, c) == c[d] \in (is_d(r, d) - nghost)..(is_d(r, d) - 1)
OuterGhost(r, d, c) == c[d] \in (ie_d(r, d) + 1)..(ie_d(r, d) + nghost)
\* variant: the loops over the normal interface field start at i=1
OuterGhost2_from1(r, d, c) == c[d] \in (ie_d(r, d) + 1)..(ie_d(r, d) + nghost)
\* outer ghost layers 2..nghost: the loops "for (i=2; i<=nghost; i++)"
OuterGhost2(r, d, c) == c[d] \in (ie_d(r, d) + 2)..(ie_d(r, d) + nghost)

At(c, d, v) == [c EXCEPT ![d] = v]

\* variant: the normal field keeps its sign whatever the flag
qa_of_plus(flag) == 1
\* variant: the normal field changes its sign whatever the flag
qa_of_minus(flag) == -1
\* multiplier qa of the reflecting functions
qa_of(flag) == IF flag = 1 THEN -1 ELSE 1

reflect_ix(g, r, d, flag) ==
  LET s == is_d(r, d)
      qa == qa_of(flag)
      m1(c) == At(c, d, 2 * s - 1 - c[d])      \* is+(i-1) for the target is-i
      m0(c) == At(c, d, 2 * s - c[d])          \* is+i     for the target is-i
      U1 == [c \in Cells(r) |->
               IF InnerGhost(r, d, c) /\ InT(r, d, c, 0)
               THEN [g.U[m1(c)] EXCEPT ![Mn(d)] = -@]
               ELSE g.U[c]]
      U2 == [c \in Cells(r) |-> [comp \in DOMAIN U1[c] |->
               IF BcDir(comp) # 0 /\ InnerGhost(r, d, c) /\ InT(r, d, c, BcDir(comp))
               THEN (IF BcDir(comp) = d THEN qa ELSE -qa) * U1[m1(c)][comp]
               ELSE U1[c][comp]]]
      Bn0 == [c \in Cells(r) |->
               IF flag = 1 /\ c[d] = s /\ InT(r, d, c, 0) THEN 0 ELSE Bi(g, d)[c]]
      Bnew(a) == [c \in Cells(r) |->
               IF a = d
               THEN IF InnerGhost(r, d, c) /\ InT(r, d, c, 0)
                    THEN qa * Bn0[m0(c)] ELSE Bn0[c]
               ELSE IF InnerGhost(r, d, c) /\ InT(r, d, c, a)
                    THEN (-qa) * Bi(g, a)[m1(c)] ELSE Bi(g, a)[c]]
  IN [U |-> U2, B1i |-> Bnew(1), B2i |-> Bnew(2), B3i |-> Bnew(3)]

reflect_ox(g, r, d, flag) ==
  LET e == ie_d(r, d)
      qa == qa_of(flag)
      m1(c) == At(c, d, 2 * e + 1 - c[d])      \* ie-(i-1) for the target ie+i
      m2(c) == At(c, d, 2 * e + 2 - c[d])      \* ie-(i-2) for the target ie+i
      U1 == [c \in Cells(r) |->
               IF OuterGhost(r, d, c) /\ InT(r, d, c, 0)
               THEN [g.U[m1(c)] EXCEPT ![Mn(d)] = -@]
               ELSE g.U[c]]
      U2 == [c \in Cells(r) |-> [comp \in DOMAIN U1[c] |->
               IF BcDir(comp) # 0 /\ OuterGhost(r, d, c) /\ InT(r, d, c, BcDir(comp))
               THEN (IF BcDir(comp) = d THEN qa ELSE -qa) * U1[m1(c)][comp]
               ELSE U1[c][comp]]]
      Bn0 == [c \in Cells(r) |->
               IF flag = 1 /\ c[d] = e + 1 /\ InT(r, d, c, 0) THEN 0 ELSE Bi(g, d)[c]]
      Bnew(a) == [c \in Cells(r) |->
               IF a = d
               THEN IF OuterGhost2(r, d, c) /\ InT(r, d, c, 0)
                    THEN qa * Bn0[m2(c)] ELSE Bn0[c]
               ELSE IF OuterGhost(r, d, c) /\ InT(r, d, c, a)
                    THEN (-qa) * Bi(g, a)[m1(c)] ELSE Bi(g, a)[c]]
  IN [U |-> U2, B1i |-> Bnew(1), B2i |-> Bnew(2), B3i |-> Bnew(3)]

outflow_ix(g, r, d) ==
  LET s == is_d(r, d)
      Bnew(a) == [c \in Cells(r) |->
               IF InnerGhost(r, d, c) /\ InT(r, d, c, a)
               THEN Bi(g, a)[At(c, d, s)] ELSE Bi(g, a)[c]]
  IN [U |-> [c \in Cells(r) |->
               IF InnerGhost(r, d, c) /\ InT(r, d, c, 0)
               THEN g.U[At(c, d, s)] ELSE g.U[c]],
      B1i |-> Bnew(1), B2i |-> Bnew(2), B3i |-> Bnew(3)]

outflow_ox(g, r, d) ==
  LET e == ie_d(r, d)
      Bnew(a) == [c \in Cells(r) |->
               IF (IF a = d THEN OuterGhost2(r, d, c) ELSE OuterGhost(r, d, c))
                  /\ InT(r, d, c, a)
               THEN Bi(g, a)[At(c, d, e)] ELSE Bi(g, a)[c]]
  IN [U |-> [c \in Cells(r) |->
               IF OuterGhost(r, d, c) /\ InT(r, d, c, 0)
               THEN g.U[At(c, d, e)] ELSE g.U[c]],
      B1i |-> Bnew(1), B2i |-> Bnew(2), B3i |-> Bnew(3)]

periodic_ix(g, r, d) ==
  LET w(c) == At(c, d, c[d] + Nx(r, d))        \* ie-(i-1) for the target is-i
      Bnew(a) == [c \in Cells(r) |->
               IF InnerGhost(r, d, c) /\ InT(r, d, c, a)
               THEN Bi(g, a)[w(c)] ELSE Bi(g, a)[c]]
  IN [U |-> [c \in Cells(r) |->
               IF InnerGhost(r, d, c) /\ InT(r, d, c, 0)
               THEN g.U[w(c)] ELSE g.U[c]],
      B1i |-> Bnew(1), B2i |-> Bnew(2), B3i |-> Bnew(3)]

periodic_ox(g, r, d) ==
  LET w(c) == At(c, d, c[d] - Nx(r, d))        \* is+(i-1) for the target ie+i
      Bnew(a) == [c \in Cells(r) |->
               IF (IF a = d THEN OuterGhost2(r, d, c) ELSE OuterGhost(r, d, c))
                  /\ InT(r, d, c, a)
               THEN Bi(g, a)[w(c)] ELSE Bi(g, a)[c]]
  IN [U |-> [c \in Cells(r) |->
               IF OuterGhost(r, d, c) /\ InT(r, d, c, 0)
               THEN g.U[w(c)] ELSE g.U[c]],
      B1i |-> Bnew(1), B2i |-> Bnew(2), B3i |-> Bnew(3)]

(***************************************************************************)
(* set_bvals_mhd_init: the function pointers apply_ix?/apply_ox? chosen by *)
(* the flags, and the neighbour ids of a periodic Domain.                  *)
(***************************************************************************)
ibc(d) == cfg.bc[2 * d - 1]
obc(d) == cfg.bc[2 * d]

\* the six faces ix1, ox1, ix2, ox2, ix3, ox3 and their directions
Faces == 1..6
FaceDir(f) == (f + 1) \div 2
Flags == {1, 2, 4, 5}

\* apply_ix? = apply_ox? = NULL
NoFun == [f \in Faces |-> "NULL"]

\* the function a case of the switch assigns ("NULL": the default case)
PolicyOf(flag) ==
  CASE flag = 1 -> "reflect"
    [] flag = 2 -> "outflow"
    [] flag = 4 -> "periodic"
    [] flag = 5 -> "reflect"
    [] OTHER -> "NULL"

\* "if(pG->Nx1 > 1) { if(apply_ix1 == NULL){ ... switch(ibc_x1)"
SwitchRuns(r, ap, f) == Nx(r, FaceDir(f)) > 1 /\ ap[f] = "NULL"

\* variant: the default case of the switches does not exit
BadFaces_none(r, ap) == {}
\* the faces whose switch reaches "default: ... exit(EXIT_FAILURE)"
BadFaces(r, ap) == {f \in Faces : SwitchRuns(r, ap, f) /\ cfg.bc[f] \notin Flags}

\* (*apply_ix?)(pGrid), (*apply_ox?)(pGrid): the function set_bvals_mhd_init
\* assigned; the reflecting functions read the flag again for qa
apply_ix(g, r, d) ==
  CASE boot[r].apply[2 * d - 1] = "reflect" -> reflect_ix(g, r, d, ibc(d))
    [] boot[r].apply[2 * d - 1] = "outflow" -> outflow_ix(g, r, d)
    [] boot[r].apply[2 * d - 1] = "periodic" -> periodic_ix(g, r, d)

apply_ox(g, r, d) ==
  CASE boot[r].apply[2 * d] = "reflect" -> reflect_ox(g, r, d, obc(d))
    [] boot[r].apply[2 * d] = "outflow" -> outflow_ox(g, r, d)
    [] boot[r].apply[2 * d] = "periodic" -> periodic_ox(g, r, d)

\* the id of the Grid at block index b along d in the row of rank r
RowId(r, d, b) ==
  LET gi == get_myGridIndex(r)
      h == [gi EXCEPT ![d] = b]
  IN GridArray(h[1], h[2], h[3])

\* lx?_id / rx?_id as init_grid leaves them: the adjacent Grid, or -1
lx_id0(r, d) ==
  IF get_myGridIndex(r)[d] > 0 THEN RowId(r, d, get_myGridIndex(r)[d] - 1) ELSE -1
rx_id0(r, d) ==
  IF get_myGridIndex(r)[d] < cfg.NGrid[d] - 1
  THEN RowId(r, d, get_myGridIndex(r)[d] + 1) ELSE -1

\* lx?_id / rx?_id after set_bvals_mhd_init (case 4 of the switch, which is
\* the only case that assigns periodic_ix? / periodic_ox?)
\* variant: no periodic wrap of the left neighbour id
lx_id_nowrap(r, d) == lx_id0(r, d)
lx_id(r, d) ==
  IF boot[r].apply[2 * d - 1] = "periodic" /\ lx_id0(r, d) < 0 /\ cfg.NGrid[d] > 1
  THEN RowId(r, d, cfg.NGrid[d] - 1) ELSE lx_id0(r, d)
rx_id(r, d) ==
  IF boot[r].apply[2 * d] = "periodic" /\ rx_id0(r, d) < 0 /\ cfg.NGrid[d] > 1
  THEN RowId(r, d, 0) ELSE rx_id0(r, d)

(***************************************************************************)
(* MPI messages: packing (send_ix?/send_ox?) and unpacking (receive_ix?/   *)
(* receive_ox?).  A box is the index range [lo[t], hi[t]] in each          *)
(* direction t; the loops run k outermost, then j, then i.                 *)
(***************************************************************************)
PackList == <<"d", "M1", "M2", "M3", "B1c", "B2c", "B3c", "B1i", "B2i", "B3i", "E", "s">>
\* variant: E and the scalar unpacked in the other order
UnpackList_swapped == <<"d", "M1", "M2", "M3", "B1c", "B2c", "B3c", "B1i", "B2i", "B3i", "s", "E">>
UnpackList == <<"d", "M1", "M2", "M3", "B1c", "B2c", "B3c", "B1i", "B2i", "B3i", "E", "s">>
\* NSCALARS passive scalars; NVAR is the number of variables of the Gas
\* structure of this build (d, M1, M2, M3, B1c, B2c, B3c, E and the scalars)
NSCALARS == 1
NVAR == 4 + 3 + 1 + NSCALARS
\* "#define NVAR_SHARE (NVAR + 3)"
NVAR_SHARE == NVAR + 3

IsFace(name) == name \in {"B1i", "B2i", "B3i"}
Value(g, c, name) == IF IsFace(name) THEN g[name][c] ELSE g.U[c][name]

\* jl..ju and kl..ku (il..iu) of the send and receive functions of pass d
BoxT(r, d, t) ==
  IF Nx(r, t) > 1
  THEN IF t < d THEN <<is_d(r, t) - nghost, ie_d(r, t) + nghost>>
       ELSE <<is_d(r, t), ie_d(r, t) + 1>>
  ELSE <<is_d(r, t), is_d(r, t)>>

BoxOf(r, d, nlo, nhi) ==
  [lo |-> [t \in Dirs |-> IF t = d THEN nlo ELSE BoxT(r, d, t)[1]],
   hi |-> [t \in Dirs |-> IF t = d THEN nhi ELSE BoxT(r, d, t)[2]]]

send_ix_box(r, d) == BoxOf(r, d, is_d(r, d), is_d(r, d) + nghost - 1)
send_ox_box(r, d) == BoxOf(r, d, ie_d(r, d) - nghost + 1, ie_d(r, d))
receive_ix_box(r, d) == BoxOf(r, d, is_d(r, d) - nghost, is_d(r, d) - 1)
receive_ox_box(r, d) == BoxOf(r, d, ie_d(r, d) + 1, ie_d(r, d) + nghost)

BoxN(box, t) == box.hi[t] - box.lo[t] + 1
BoxCells(box) == {c \in (box.lo[1]..box.hi[1]) \X (box.lo[2]..box.hi[2]) \X (box.lo[3]..box.hi[3]) : TRUE}
InBox(box, c) == \A t \in Dirs : c[t] \in box.lo[t]..box.hi[t]

\* the q-th cell (from 0) the loops "for k, for j, for i" visit
CellAt(box, q) ==
  << box.lo[1] + (q % BoxN(box, 1)),
     box.lo[2] + ((q \div BoxN(box, 1)) % BoxN(box, 2)),
     box.lo[3] + (q \div (BoxN(box, 1) * BoxN(box, 2))) >>

\* the number of cells the loops visit before cell c
PosOf(box, c) ==
  ((c[3] - box.lo[3]) * BoxN(box, 2) + (c[2] - box.lo[2])) * BoxN(box, 1)
    + (c[1] - box.lo[1])

IndexIn(list, name) == CHOOSE n \in DOMAIN list : list[n] = name

\* cnt of the send functions: (iu-il+1)*(ju-jl+1)*(ku-kl+1)*NVAR_SHARE
BoxCnt(box) == BoxN(box, 1) * BoxN(box, 2) * BoxN(box, 3) * NVAR_SHARE

\* the number of cells the loops over the box visit
BoxSize(box) == BoxN(box, 1) * BoxN(box, 2) * BoxN(box, 3)

\* the packing loops: one *(pd++) = ... per entry of PackList and cell
Pack(g, box) ==
  [n \in 1..(BoxSize(box) * Len(PackList)) |->
     Value(g, CellAt(box, (n - 1) \div Len(PackList)), PackList[((n - 1) % Len(PackList)) + 1])]

BufAt(buf, n) == IF n \in DOMAIN buf THEN buf[n] ELSE 0

\* the value the unpacking loops read for component name of cell c
Unpacked(buf, box, c, name) ==
  BufAt(buf, (PosOf(box, c) * Len(UnpackList)) + IndexIn(UnpackList, name))

\* receive_ox1 under SHEARING_BOX: "if (i>il) {B1i = *(pd++);} else {pd++;}"
\* variant: receive_ox1 keeps B1i at ie+1 in every build
SkipB1i_always(r, d, side, box, c) == d = 1 /\ side = "o" /\ c[1] = box.lo[1]
\* variant: receive_ox1 writes B1i at ie+1 in every build
SkipB1i_never(r, d, side, box, c) == FALSE
SkipB1i(r, d, side, box, c) ==
  cfg.SHEARING_BOX /\ d = 1 /\ side = "o" /\ c[1] = box.lo[1]

Unpack(g, r, d, side, box, buf) ==
  LET Bnew(name) == [c \in Cells(r) |->
        IF InBox(box, c) /\ ~(name = "B1i" /\ SkipB1i(r, d, side, box, c))
        THEN Unpacked(buf, box, c, name) ELSE g[name][c]]
  IN [U |-> [c \in Cells(r) |->
               IF InBox(box, c)
               THEN [comp \in DOMAIN g.U[c] |-> Unpacked(buf, box, c, comp)]
               ELSE g.U[c]],
      B1i |-> Bnew("B1i"), B2i |-> Bnew("B2i"), B3i |-> Bnew("B3i")]

\* variant: cnt1 and cnt2 without the ghost zones
CntT_active(r, d, t) == IF Nx(r, t) > 1 THEN Nx(r, t) + 1 ELSE 1
\* cnt of the MPI_Irecv calls of Step d of set_bvals_mhd
CntT(r, d, t) ==
  IF Nx(r, t) > 1
  THEN IF t < d THEN Nx(r, t) + 2 * nghost ELSE Nx(r, t) + 1
  ELSE 1
IrecvCnt(r, d) ==
  LET o == Dirs \ {d}
      t1 == CHOOSE t \in o : \A u \in o : t <= u
      t2 == CHOOSE t \in o : \A u \in o : t >= u
  IN nghost * CntT(r, d, t1) * CntT(r, d, t2) * NVAR_SHARE

(***************************************************************************)
(* set_bvals_mhd_init: the size of send_buf and recv_buf, and the function *)
(* as a whole.  ap is the array of the function pointers at entry (a face  *)
(* for which the problem generator has enrolled a function with            *)
(* set_bvals_mhd_fun holds "prob_bc").                                     *)
(***************************************************************************)
Max2(a, b) == IF a > b THEN a ELSE b
MaxOf(S) == IF S = {} THEN 0 ELSE CHOOSE m \in S : \A x \in S : x <= m

\* variant: no ghost zones of the directions already processed
nxt_active(q, d, t) == IF Nx(q, t) > 1 THEN Nx(q, t) + 1 ELSE 1
\* nx1t, nx2t, nx3t of Grid q for the messages of direction d
nxt(q, d, t) ==
  IF Nx(q, t) > 1 THEN (IF t < d THEN Nx(q, t) + 2 * nghost ELSE Nx(q, t) + 1) ELSE 1

\* x1cnt, x2cnt, x3cnt: the largest face over all Grids of the Domain
xcnt(d) ==
  LET o == Dirs \ {d}
      t1 == CHOOSE t \in o : \A u \in o : t <= u
      t2 == CHOOSE t \in o : \A u \in o : t >= u
  IN IF cfg.NGrid[d] > 1
     THEN MaxOf({nxt(q, d, t1) * nxt(q, d, t2) : q \in Ranks})
     ELSE 0

\* the number of doubles malloc'ed for send_buf and for recv_buf
BufDoubles ==
  LET size == Max2(xcnt(3), Max2(xcnt(1), xcnt(2))) * nghost
  IN IF size > 0 THEN size * NVAR_SHARE ELSE 0

set_bvals_mhd_init(r, ap) ==
  LET bad == BadFaces(r, ap)
      stop == IF bad = {} THEN 7 ELSE CHOOSE f \in bad : \A h \in bad : f <= h
  IN [status |-> IF bad = {} THEN "returned" ELSE "exit",
      apply |-> [f \in Faces |->
                   IF f < stop /\ SwitchRuns(r, ap, f) THEN PolicyOf(cfg.bc[f]) ELSE ap[f]],
      size |-> IF bad = {} /\ cfg.MPI_PARALLEL THEN BufDoubles ELSE 0]

\* set_bvals_mhd_fun(dir, prob_bc) for every face the problem generator enrolls
set_bvals_mhd_fun(ap, faces) == [f \in Faces |-> IF f \in faces THEN "prob_bc" ELSE ap[f]]

(***************************************************************************)
(* set_bvals_mhd: the operations of one call of rank r, in program order.  *)
(***************************************************************************)
Op(o, d, side) == [op |-> o, d |-> d, side |-> side]

\* variant: the two sends of the exchange swapped
StepsBoth_swapped(d) ==
  << Op("irecv", d, "l"), Op("send", d, "i"), Op("recv", d, "i"),
     Op("irecv", d, "r"), Op("send", d, "o"), Op("recv", d, "o") >>
\* variant: both receives posted before the first send
StepsBoth_prepost(d) ==
  << Op("irecv", d, "l"), Op("irecv", d, "r"), Op("send", d, "o"), Op("recv", d, "i"),
     Op("send", d, "i"), Op("recv", d, "o") >>
\* "MPI blocks to both left and right"
StepsBoth(d) ==
  << Op("irecv", d, "l"), Op("send", d, "o"), Op("recv", d, "i"),
     Op("irecv", d, "r"), Op("send", d, "i"), Op("recv", d, "o") >>
\* "Physical boundary on left, MPI block on right"
StepsRight(d) ==
  << Op("irecv", d, "r"), Op("send", d, "o"), Op("apply", d, "i"), Op("recv", d, "o") >>
\* "MPI block on left, Physical boundary on right"
StepsLeft(d) ==
  << Op("irecv", d, "l"), Op("send", d, "i"), Op("apply", d, "o"), Op("recv", d, "i") >>
\* "Physical boundaries on both left and right"
StepsPhys(d) == << Op("apply", d, "i"), Op("apply", d, "o") >>

\* the shearing-sheet hooks at the end of Step 2
StepsShear(r, d) ==
  IF cfg.SHEARING_BOX /\ d = 2
  THEN (IF get_myGridIndex(r)[1] = 0 THEN <<Op("shear", 1, "i")>> ELSE <<>>)
       \o (IF get_myGridIndex(r)[1] = cfg.NGrid[1] - 1 THEN <<Op("shear", 1, "o")>> ELSE <<>>)
  ELSE <<>>

StepsDir(r, d) ==
  IF Nx(r, d) > 1
  THEN (IF cfg.MPI_PARALLEL
        THEN (IF rx_id(r, d) >= 0 /\ lx_id(r, d) >= 0 THEN StepsBoth(d) ELSE <<>>)
             \o (IF rx_id(r, d) >= 0 /\ lx_id(r, d) < 0 THEN StepsRight(d) ELSE <<>>)
             \o (IF rx_id(r, d) < 0 /\ lx_id(r, d) >= 0 THEN StepsLeft(d) ELSE <<>>)
        ELSE <<>>)
       \o (IF rx_id(r, d) < 0 /\ lx_id(r, d) < 0 THEN StepsPhys(d) ELSE <<>>)
       \o StepsShear(r, d)
  ELSE <<>>

\* variant: Step 2 before Step 1
Prog_x2first(r) == StepsDir(r, 2) \o StepsDir(r, 1) \o StepsDir(r, 3)
Prog(r) == StepsDir(r, 1) \o StepsDir(r, 2) \o StepsDir(r, 3)

AtOp(r, o) ==
  /\ pc[r] \in 1..Len(Prog(r))
  /\ Prog(r)[pc[r]].op = o
CurOp(r) == Prog(r)[pc[r]]

(***************************************************************************)
(* Initial states.  Every stored value (ghost zones included) is a         *)
(* distinct non-zero number, so that a value identifies the rank, cell and *)
(* component it was copied from.                                           *)
(***************************************************************************)
TileSizes == nghost..(nghost + ExtraZones)

InitValue(r, c, n) == 2 * (n + 16 * (c[1] + 16 * (c[2] + 16 * (c[3] + 16 * r))))

InitGas(r, c) ==
  [comp \in {GasComps[n] : n \in DOMAIN GasComps} |->
     InitValue(r, c, IndexIn(PackList, comp))]

EmptyChan == [p \in Ranks \X Ranks |-> <<>>]

InitGrid ==
  /\ U = [r \in Ranks |-> [c \in Cells(r) |-> InitGas(r, c)]]
  /\ B1i = [r \in Ranks |-> [c \in Cells(r) |-> InitValue(r, c, IndexIn(PackList, "B1i"))]]
  /\ B2i = [r \in Ranks |-> [c \in Cells(r) |-> InitValue(r, c, IndexIn(PackList, "B2i"))]]
  /\ B3i = [r \in Ranks |-> [c \in Cells(r) |-> InitValue(r, c, IndexIn(PackList, "B3i"))]]
  /\ pc = [r \in Ranks |-> 1]
  /\ ncall = [r \in Ranks |-> 0]
  /\ posted = [r \in Ranks |-> <<>>]
  /\ chan = EmptyChan
  /\ recv_buf = [r \in Ranks |-> <<>>]
  /\ send_buf = [r \in Ranks |-> <<>>]
  /\ insend = [r \in Ranks |-> -1]
  /\ log = [r \in Ranks |-> <<>>]
  /\ snap = [r \in Ranks |-> None]
  /\ sent = [r \in Ranks |-> None]
  /\ ctface = [r \in Ranks |-> <<>>]
  /\ prev = [r \in Ranks |-> <<>>]
  /\ kern = None
  /\ scratch = None

\* set_bvals_mhd_init has returned on every rank; no integrator step yet
Booted ==
  /\ boot = [r \in Ranks |-> set_bvals_mhd_init(r, set_bvals_mhd_fun(NoFun, cfg.fun))]
  /\ step = [r \in Ranks |-> None]

MkCfg(ng, tile, f1, f2, f3, shear, mpi, sync) ==
  [NGrid |-> ng, tile |-> tile, bc |-> <<f1[1], f1[2], f2[1], f2[2], f3[1], f3[2]>>,
   SHEARING_BOX |-> shear, MPI_PARALLEL |-> mpi, sync |-> sync, integrate |-> FALSE,
   fun |-> {}, StaticGravPot |-> FALSE, SHEARING_BOX_EVOLUTION |-> FALSE]

\* the same run with an integrator step between the set_bvals_mhd calls
WithSteps(c) == [c EXCEPT !.integrate = TRUE]

FlagPairs == Flags \X Flags
MixedPairs == {<<4, 4>>, <<1, 2>>, <<2, 5>>, <<5, 1>>}
EndSizes == {nghost, nghost + ExtraZones}

\* a Domain on one Grid, built without MPI_PARALLEL: 1D, 2D and 3D
SerialConfigs ==
  { MkCfg(<<1, 1, 1>>, << <<a>>, <<1>>, <<1>> >>, p, p, p, FALSE, FALSE, FALSE) :
      a \in TileSizes, p \in FlagPairs }
  \cup { MkCfg(<<1, 1, 1>>, << <<a>>, <<a>>, <<1>> >>, p, q, p, FALSE, FALSE, FALSE) :
      a \in EndSizes, p \in MixedPairs, q \in MixedPairs }
  \cup { MkCfg(<<1, 1, 1>>, << <<nghost>>, <<nghost>>, <<nghost>> >>, p, p, p, FALSE, FALSE, FALSE) :
      p \in {<<4, 4>>, <<1, 5>>} }

\* a Domain decomposed over MPI ranks: two or three Grids along x1 in 1D, two
\* Grids along x1 or along x2 in 2D, two Grids along x3 in 3D
MPIConfigs ==
  { MkCfg(<<2, 1, 1>>, << <<nghost, b>>, <<1>>, <<1>> >>, p, p, p, m[1], TRUE, m[2]) :
      b \in EndSizes,
      p \in MixedPairs \cup {<<4, 2>>, <<1, 4>>},
      m \in {<<FALSE, FALSE>>, <<FALSE, TRUE>>, <<TRUE, FALSE>>} }
  \cup { MkCfg(<<3, 1, 1>>, << <<nghost, nghost, nghost>>, <<1>>, <<1>> >>, p[1], p[1], p[1],
               FALSE, TRUE, p[2]) :
      p \in {<< <<4, 4>>, FALSE >>, << <<1, 2>>, TRUE >>} }
  \cup { MkCfg(<<2, 1, 1>>, << <<nghost, nghost>>, <<nghost>>, <<1>> >>, p[1], p[2], p[1],
               p[3], TRUE, FALSE) :
      p \in { << <<4, 4>>, <<4, 4>>, FALSE >>, << <<1, 2>>, <<5, 1>>, TRUE >>,
              << <<4, 4>>, <<5, 1>>, TRUE >>, << <<1, 2>>, <<4, 4>>, FALSE >> } }
  \cup { MkCfg(<<1, 2, 1>>, << <<nghost>>, <<nghost, nghost>>, <<1>> >>, <<4, 4>>, q, q,
               FALSE, TRUE, TRUE) :
      q \in {<<4, 4>>, <<2, 1>>} }
  \cup { WithSteps(MkCfg(<<2, 1, 1>>, << <<nghost, nghost>>, <<nghost>>, <<1>> >>,
                         <<4, 4>>, <<4, 4>>, <<4, 4>>, sh, TRUE, FALSE)) : sh \in BOOLEAN }
  \cup { WithSteps(MkCfg(<<1, 2, 1>>, << <<nghost>>, <<nghost, nghost>>, <<1>> >>,
                         <<2, 5>>, <<2, 5>>, <<2, 5>>, FALSE, TRUE, TRUE)) }
  \cup { MkCfg(<<1, 1, 2>>, << <<nghost>>, <<nghost>>, <<nghost, nghost>> >>, p, p, p,
               FALSE, TRUE, FALSE) :
      p \in {<<4, 4>>} }

InitSerial ==
  /\ cfg \in SerialConfigs
  /\ InitGrid
  /\ Booted

(***************************************************************************)
(* Actions of set_bvals_mhd.  One action is one statement of the function  *)
(* (a boundary function call, MPI_Irecv, a send or a receive function).    *)
(***************************************************************************)
SetGrid(r, g) ==
  /\ U' = [U EXCEPT ![r] = g.U]
  /\ B1i' = [B1i EXCEPT ![r] = g.B1i]
  /\ B2i' = [B2i EXCEPT ![r] = g.B2i]
  /\ B3i' = [B3i EXCEPT ![r] = g.B3i]

Advance(r, entry) ==
  /\ pc' = [pc EXCEPT ![r] = @ + 1]
  /\ log' = [log EXCEPT ![r] = Append(@, entry)]

\* (*apply_ix?)(pGrid) and (*apply_ox?)(pGrid)
Apply(r) ==
  /\ AtOp(r, "apply")
  /\ LET o == CurOp(r)
     IN /\ SetGrid(r, IF o.side = "i" THEN apply_ix(GridOf(r), r, o.d)
                                      ELSE apply_ox(GridOf(r), r, o.d))
        /\ Advance(r, o)
  /\ sent' = [sent EXCEPT ![r] = None]
  /\ prev' = [prev EXCEPT ![r] = Bi(GridOf(r), CurOp(r).d)]
  /\ UNCHANGED <<kern, scratch, boot, step, cfg, ncall, posted, chan, recv_buf, send_buf, insend, snap, ctface>>

\* ShearingSheet_ix1 / ShearingSheet_ox1: defined in the problem generator
Shear(r) ==
  /\ AtOp(r, "shear")
  /\ Advance(r, CurOp(r))
  /\ sent' = [sent EXCEPT ![r] = None]
  /\ UNCHANGED <<kern, scratch, boot, step, prev, cfg, U, B1i, B2i, B3i, ncall, posted, chan, recv_buf, send_buf,
                 insend, snap, ctface>>

Peer(r, o) ==
  IF o.op = "send"
  THEN (IF o.side = "i" THEN lx_id(r, o.d) ELSE rx_id(r, o.d))
  ELSE (IF o.side \in {"l", "i"} THEN lx_id(r, o.d) ELSE rx_id(r, o.d))

\* MPI_Irecv(recv_buf, cnt, MPI_DOUBLE, lx?_id or rx?_id, boundary_cells_tag, ..., &rq)
Irecv(r) ==
  /\ AtOp(r, "irecv")
  /\ LET o == CurOp(r)
     IN /\ posted' = [posted EXCEPT ![r] =
                        Append(@, [src |-> Peer(r, o), cnt |-> IrecvCnt(r, o.d), d |-> o.d,
                                   matched |-> FALSE, msgcnt |-> 0, mside |-> "", img |-> <<>>])]
        /\ Advance(r, [o EXCEPT !.side = IF o.side = "l" THEN "i" ELSE "o"]
                        @@ [peer |-> Peer(r, o)])
  /\ sent' = [sent EXCEPT ![r] = None]
  /\ UNCHANGED <<kern, scratch, boot, step, prev, cfg, U, B1i, B2i, B3i, ncall, chan, recv_buf, send_buf, insend, snap, ctface>>

\* what the cells of the box hold, by position in the box and by name
Image(g, box) ==
  [q \in 0..(BoxN(box, 1) * BoxN(box, 2) * BoxN(box, 3) - 1) |->
     [name \in {PackList[n] : n \in DOMAIN PackList} |-> Value(g, CellAt(box, q), name)]]

\* send_ix? / send_ox?: pack send_buf, then MPI_Send.  A standard-mode send
\* returns once the message is buffered (cfg.sync = FALSE) or only once the
\* matching receive has started (cfg.sync = TRUE).
CanSend(r) == AtOp(r, "send") /\ insend[r] = -1

Send(r) ==
  /\ CanSend(r)
  /\ LET o == CurOp(r)
         box == IF o.side = "i" THEN send_ix_box(r, o.d) ELSE send_ox_box(r, o.d)
         buf == Pack(GridOf(r), box)
         dest == Peer(r, o)
     IN /\ send_buf' = [send_buf EXCEPT ![r] = buf]
        /\ chan' = [chan EXCEPT ![<<r, dest>>] =
                      Append(@, [data |-> buf, cnt |-> BoxCnt(box), d |-> o.d, side |-> o.side,
                                 img |-> Image(GridOf(r), box)])]
        /\ log' = [log EXCEPT ![r] = Append(@, o @@ [peer |-> dest, lo |-> box.lo[o.d], hi |-> box.hi[o.d]])]
        /\ IF cfg.sync
           THEN insend' = [insend EXCEPT ![r] = dest] /\ pc' = pc
           ELSE insend' = insend /\ pc' = [pc EXCEPT ![r] = @ + 1]
  /\ sent' = [sent EXCEPT ![r] = None]
  /\ UNCHANGED <<kern, scratch, boot, step, prev, cfg, U, B1i, B2i, B3i, ncall, posted, recv_buf, snap, ctface>>

\* MPI_Send returns
CanSendReturn(r) == insend[r] # -1 /\ chan[<<r, insend[r]>>] = <<>>

SendReturn(r) ==
  /\ CanSendReturn(r)
  /\ insend' = [insend EXCEPT ![r] = -1]
  /\ pc' = [pc EXCEPT ![r] = @ + 1]
  /\ sent' = [sent EXCEPT ![r] = None]
  /\ UNCHANGED <<kern, scratch, boot, step, prev, cfg, U, B1i, B2i, B3i, ncall, posted, chan, recv_buf, send_buf, log, snap, ctface>>

\* the MPI library matches the oldest message of the source (same tag and
\* communicator: non-overtaking) with the posted receive and fills recv_buf
CanMatch(r) ==
  /\ posted[r] # <<>>
  /\ ~posted[r][1].matched
  /\ posted[r][1].src \in Ranks
  /\ chan[<<posted[r][1].src, r>>] # <<>>

Match(r) ==
  /\ CanMatch(r)
  /\ LET rq == posted[r][1]
         s == rq.src
     IN /\ LET m == Head(chan[<<s, r>>])
           IN /\ recv_buf' = [recv_buf EXCEPT ![r] =
                                [n \in 1..(IF m.cnt < rq.cnt THEN m.cnt ELSE rq.cnt) |-> m.data[n]]]
              /\ posted' = [posted EXCEPT ![r][1] =
                              [rq EXCEPT !.matched = TRUE, !.msgcnt = m.cnt, !.mside = m.side,
                                          !.img = m.img]]
        /\ chan' = [chan EXCEPT ![<<s, r>>] = Tail(@)]
  /\ UNCHANGED <<kern, scratch, boot, step, prev, cfg, U, B1i, B2i, B3i, pc, ncall, send_buf, insend, log, snap, sent, ctface>>

\* receive_ix? / receive_ox?: MPI_Wait(prq), then unpack recv_buf
CanReceive(r) == AtOp(r, "recv") /\ posted[r] # <<>> /\ posted[r][1].matched

Receive(r) ==
  /\ CanReceive(r)
  /\ LET o == CurOp(r)
         box == IF o.side = "i" THEN receive_ix_box(r, o.d) ELSE receive_ox_box(r, o.d)
         rq == posted[r][1]
     IN /\ SetGrid(r, Unpack(GridOf(r), r, o.d, o.side, box, recv_buf[r]))
        /\ sent' = [sent EXCEPT ![r] = [img |-> rq.img, box |-> box, d |-> o.d, side |-> o.side,
                                           B1i |-> B1i[r]]]
        /\ Advance(r, o @@ [peer |-> rq.src, lo |-> box.lo[o.d], hi |-> box.hi[o.d],
                              mside |-> rq.mside, msgcnt |-> rq.msgcnt, cnt |-> rq.cnt])
  /\ posted' = [posted EXCEPT ![r] = Tail(@)]
  /\ UNCHANGED <<kern, scratch, boot, step, prev, cfg, ncall, chan, recv_buf, send_buf, insend, snap, ctface>>

\* the number of set_bvals_mhd calls of a run: one before the first step and
\* one after each step; a run on one Grid takes one step more
Calls == IF cfg.integrate /\ ~cfg.MPI_PARALLEL THEN MaxCalls + 1 ELSE MaxCalls

AtEnd(r) == pc[r] = Len(Prog(r)) + 1

\* set_bvals_mhd returns; the caller calls it again
CanReturn(r) == AtEnd(r) /\ ncall[r] < Calls

Return(r) ==
  /\ CanReturn(r)
  /\ ncall' = [ncall EXCEPT ![r] = @ + 1]
  /\ snap' = [snap EXCEPT ![r] = IF ncall[r] = 0 THEN GridOf(r) ELSE @]
  /\ pc' = [pc EXCEPT ![r] = IF ncall[r] + 1 < Calls
                              THEN (IF cfg.integrate THEN 0 ELSE 1) ELSE @]
  /\ log' = [log EXCEPT ![r] = IF ncall[r] + 1 < Calls THEN <<>> ELSE @]
  /\ sent' = [sent EXCEPT ![r] = None]
  /\ UNCHANGED <<kern, scratch, boot, step, prev, cfg, U, B1i, B2i, B3i, posted, chan, recv_buf, send_buf, insend, ctface>>

NextSerial ==
  \/ \E r \in Ranks : Apply(r)
  \/ \E r \in Ranks : Return(r)

SpecSerial == InitSerial /\ [][NextSerial]_vars

(***************************************************************************)
(* The integrators (integrate_2d, integrate_3d_ctu): the constrained-      *)
(* transport update of the interface fields, the flux update of the        *)
(* cell-centered variables, the gravitational source terms and the final   *)
(* averaging.  The interface fluxes and the corner EMFs come out of the    *)
(* reconstruction and the Riemann solver: functions of the cells next to   *)
(* the interface or edge, any such function, here drawn by a seed.         *)
(* All field values are even integers, so that 0.5*(a+b) is exact.         *)
(***************************************************************************)
NSeeds == 2
Seeds == 1..NSeeds

\* dt/dx1, dt/dx2, dt/dx3
dtodx(d) == <<6, 3, 2>>[d]

Up(c, t) == At(c, t, c[t] + 1)
Down(c, t) == At(c, t, c[t] - 1)

\* emf1, emf2, emf3 at the cell corner (edge) c of the Grid g: computed from
\* the four cells around the edge
emf(seed, g, a, c) ==
  LET a1 == (a % 3) + 1
      a2 == (a1 % 3) + 1
      q(x) == g.U[x].d + 3 * g.U[x][Mn(a1)] + 5 * g.U[x][Mn(a2)]
              + 7 * g.U[x][Bc(a1)] + 9 * g.U[x][Bc(a2)]
  IN 2 * ((seed * (3 * a + q(c) + 3 * q(Down(c, a1)) + 5 * q(Down(c, a2))
                   + 7 * q(Down(Down(c, a1), a2)) + 1)) % 19)

FluxNames == <<"d", "Mx", "My", "Mz", "E", "By", "Bz", "s">>
\* variant: fluxes that depend on the index of the interface
Flux_indexed(seed, g, d, c, f) ==
  2 * ((seed * (IndexIn(FluxNames, f) + 3 * d + 7 * c[1] + 11 * c[2] + 13 * c[3])) % 251)
\* x1Flux, x2Flux, x3Flux at the interface c of the Grid g: computed from the
\* cells on the two sides of the interface and the normal field on it
Flux(seed, g, d, c, f) ==
  LET L == g.U[Down(c, d)]
      R == g.U[c]
  IN 2 * ((seed * (IndexIn(FluxNames, f) + 3 * d + 7 * L.d + 11 * R.d + 13 * L[Mn(d)]
                   + 5 * R[Mn(d)] + L.E + 3 * R.E + 9 * Bi(g, d)[c])) % 251)

\* variant: the CT update without the faces at ie+1, je+1, ke+1
CTRange_inner(r, a, c) == \A t \in Dirs : c[t] \in Act(r, t)
\* variant: the face at is is left to the left neighbour's integrator
CTRange_upper(r, a, c) ==
  \A t \in Dirs : c[t] \in (IF t = a THEN (is_d(r, t) + 1)..(ie_d(r, t) + 1) ELSE Act(r, t))
\* the loop ranges of the CT update of the interface array of direction a:
\* is..ie+1 along a (the loops over is..ie and the extra statement for ie+1,
\* je+1 or ke+1), the active range in the other directions
CTRange(r, a, c) ==
  \A t \in Dirs : c[t] \in (IF t = a THEN ActUp(r, t) ELSE Act(r, t))

\* integrate_2d, Step 9
CT_2d(g, r, seed) ==
  [g EXCEPT
     !.B1i = [c \in Cells(r) |->
                IF CTRange(r, 1, c)
                THEN g.B1i[c] - dtodx(2) * (emf(seed, g, 3, Up(c, 2)) - emf(seed, g, 3, c))
                ELSE g.B1i[c]],
     !.B2i = [c \in Cells(r) |->
                IF CTRange(r, 2, c)
                THEN g.B2i[c] + dtodx(1) * (emf(seed, g, 3, Up(c, 1)) - emf(seed, g, 3, c))
                ELSE g.B2i[c]]]

\* integrate_3d_ctu, Step 11
CT_3d(g, r, seed) ==
  [g EXCEPT
     !.B1i = [c \in Cells(r) |->
                IF CTRange(r, 1, c)
                THEN g.B1i[c] + dtodx(3) * (emf(seed, g, 2, Up(c, 3)) - emf(seed, g, 2, c))
                              - dtodx(2) * (emf(seed, g, 3, Up(c, 2)) - emf(seed, g, 3, c))
                ELSE g.B1i[c]],
     !.B2i = [c \in Cells(r) |->
                IF CTRange(r, 2, c)
                THEN g.B2i[c] + dtodx(1) * (emf(seed, g, 3, Up(c, 1)) - emf(seed, g, 3, c))
                              - dtodx(3) * (emf(seed, g, 1, Up(c, 3)) - emf(seed, g, 1, c))
                ELSE g.B2i[c]],
     !.B3i = [c \in Cells(r) |->
                IF CTRange(r, 3, c)
                THEN g.B3i[c] + dtodx(2) * (emf(seed, g, 1, Up(c, 2)) - emf(seed, g, 1, c))
                              - dtodx(1) * (emf(seed, g, 2, Up(c, 1)) - emf(seed, g, 2, c))
                ELSE g.B3i[c]]]

\* the component of x?Flux that updates component comp of U in the sweep
\* along d ("" if none): Mx, My, Mz and By, Bz are the sweep's own axes
FluxComp(d, comp) ==
  LET d1 == (d % 3) + 1
      d2 == (d1 % 3) + 1
  IN CASE comp \in {"d", "E", "s"} -> comp
       [] comp = Mn(d) -> "Mx"
       [] comp = Mn(d1) -> "My"
       [] comp = Mn(d2) -> "Mz"
       [] comp = Bc(d1) -> "By"
       [] comp = Bc(d2) -> "Bz"
       [] OTHER -> ""

\* the cells of dhalf: one more than the active range on each side
HalfCells(r) ==
  {c \in Cells(r) :
     \A t \in Dirs : Nx(r, t) > 1 => c[t] \in (is_d(r, t) - 1)..(ie_d(r, t) + 1)}

Half(x) == x \div 2

\* the change of component f of a cell by the fluxes along t over dt/2
HalfStep(seed, g, r, t, c, f) ==
  IF Nx(r, t) > 1
  THEN Half(dtodx(t) * (Flux(seed, g, t, Up(c, t), f) - Flux(seed, g, t, c, f)))
  ELSE 0

\* integrate_2d Step 7, integrate_3d_ctu Step 9: the density at the half
\* time step
dhalf(g, r, seed) ==
  [c \in HalfCells(r) |->
     g.U[c].d - HalfStep(seed, g, r, 1, c, "d") - HalfStep(seed, g, r, 2, c, "d")
              - HalfStep(seed, g, r, 3, c, "d")]

\* cc_pos: the position of the centre of cell c, in units of half a cell
cc_pos(c) == [t \in Dirs |-> 2 * c[t]]

\* the potential function the problem generator enrolled
StaticGravPot(x) == 2 * ((x[1] + 3 * x[2] + 5 * x[3]) % 7)
\* what a call through the NULL function pointer hands back when it returns
NullCall(seed, x) == 2 * ((seed * (3 * x[1] + x[2] + 7 * x[3] + 1)) % 11)

\* (*StaticGravPot)(x1,x2,x3)
CallPot(seed, x) == IF cfg.StaticGravPot THEN StaticGravPot(x) ELSE NullCall(seed, x)

\* the positions at which the source-term step of an active cell calls the
\* potential: the centre of the cell and the centres of its faces
GravCalls(r) ==
  UNION { {cc_pos(c)} \cup { At(cc_pos(c), t, 2 * c[t] + e) : t \in MultiZoneDirs(r), e \in {-1, 1} } :
          c \in {x \in Cells(r) : IsActive(r, x)} }

\* dtodx*(phir-phil)*dhalf: the momentum source of cell c along t
GravM(seed, r, dh, t, c) ==
  dtodx(t) * (CallPot(seed, At(cc_pos(c), t, 2 * c[t] + 1))
              - CallPot(seed, At(cc_pos(c), t, 2 * c[t] - 1))) * dh[c]

\* dtodx*(Flux[i].d*(phic - phil) + Flux[i+1].d*(phir - phic)): the energy
\* source of cell c along t
GravE(seed, g, r, t, c) ==
  IF Nx(r, t) > 1
  THEN dtodx(t) * (Flux(seed, g, t, c, "d")
                     * (CallPot(seed, cc_pos(c)) - CallPot(seed, At(cc_pos(c), t, 2 * c[t] - 1)))
                   + Flux(seed, g, t, Up(c, t), "d")
                     * (CallPot(seed, At(cc_pos(c), t, 2 * c[t] + 1)) - CallPot(seed, cc_pos(c))))
  ELSE 0

\* integrate_2d Step 10 and the integrate_3d_ctu Step 12 of a build without
\* SHEARING_BOX_EVOLUTION, inside "if (StaticGravPot != NULL)"; g0 is the
\* Grid at the start of the step, which the fluxes were computed from
GravSource(g, g0, r, seed, dh) ==
  [g EXCEPT
     !.U = [c \in Cells(r) |->
              IF IsActive(r, c)
              THEN [comp \in DOMAIN g.U[c] |->
                      CASE comp = "E" ->
                             g.U[c].E - GravE(seed, g0, r, 1, c) - GravE(seed, g0, r, 2, c)
                                      - GravE(seed, g0, r, 3, c)
                        [] \E t \in MultiZoneDirs(r) : comp = Mn(t) ->
                             g.U[c][comp]
                               - GravM(seed, r, dh, CHOOSE t \in MultiZoneDirs(r) : comp = Mn(t), c)
                        [] OTHER -> g.U[c][comp]]
              ELSE g.U[c]]]

\* 1.5*Omega*x1 at the position x (Omega*dt = 2, so that fact = 1)
Tidal(x) == 3 * x[1]

\* M1e: M1 advanced by dt/2 with the fluxes to the left of the cell
M1e(seed, g0, c) ==
  g0.U[c].M1
  + Half(dtodx(1) * (Flux(seed, g0, 1, Down(c, 1), "Mx") - Flux(seed, g0, 1, c, "Mx")))
  + Half(dtodx(2) * (Flux(seed, g0, 2, Down(c, 2), "Mz") - Flux(seed, g0, 2, c, "Mz")))
  + Half(dtodx(3) * (Flux(seed, g0, 3, Down(c, 3), "My") - Flux(seed, g0, 3, c, "My")))

\* dM2e: the fluctuation M2 + d*1.5*Omega*x1 advanced by dt/2
dM2e(seed, g0, c) ==
  LET x == cc_pos(c)
      fl1 == Flux(seed, g0, 1, Down(c, 1), "My")
               + Tidal(At(x, 1, x[1] - 1)) * Flux(seed, g0, 1, Down(c, 1), "d")
      fr1 == Flux(seed, g0, 1, c, "My") + Tidal(At(x, 1, x[1] + 1)) * Flux(seed, g0, 1, c, "d")
      fl2 == Flux(seed, g0, 2, Down(c, 2), "Mx") + Tidal(x) * Flux(seed, g0, 2, Down(c, 2), "d")
      fr2 == Flux(seed, g0, 2, c, "Mx") + Tidal(x) * Flux(seed, g0, 2, c, "d")
      fl3 == Flux(seed, g0, 3, Down(c, 3), "Mz") + Tidal(x) * Flux(seed, g0, 3, Down(c, 3), "d")
      fr3 == Flux(seed, g0, 3, c, "Mz") + Tidal(x) * Flux(seed, g0, 3, c, "d")
  IN g0.U[c].M2 + g0.U[c].d * Tidal(x)
     + Half(dtodx(1) * (fl1 - fr1)) + Half(dtodx(2) * (fl2 - fr2)) + Half(dtodx(3) * (fl3 - fr3))

\* integrate_3d_ctu Step 12 of a SHEARING_BOX_EVOLUTION build: the Coriolis
\* and tidal terms in M1 and M2, the potential in M3 and E; no test of
\* StaticGravPot
ShearSource(g, g0, r, seed, dh) ==
  [g EXCEPT
     !.U = [c \in Cells(r) |->
              IF IsActive(r, c)
              THEN [g.U[c] EXCEPT
                      !.M1 = @ + (2 * dM2e(seed, g0, c) - M1e(seed, g0, c)),
                      !.M2 = @ - Half(M1e(seed, g0, c) + 2 * dM2e(seed, g0, c))
                               - 3 * (Flux(seed, g0, 1, Down(c, 1), "d") + Flux(seed, g0, 1, c, "d")),
                      !.M3 = @ - GravM(seed, r, dh, 3, c),
                      !.E = @ - GravE(seed, g0, r, 1, c) - GravE(seed, g0, r, 2, c)
                              - GravE(seed, g0, r, 3, c)]
              ELSE g.U[c]]]

\* integrate_2d Steps 11a, 11b; integrate_3d_ctu Steps 13a, 13b, 13c
FluxUpdate(g, g0, r, seed, d) ==
  [g EXCEPT
     !.U = [c \in Cells(r) |->
              IF IsActive(r, c)
              THEN [comp \in DOMAIN g.U[c] |->
                      IF FluxComp(d, comp) = "" THEN g.U[c][comp]
                      ELSE g.U[c][comp]
                             - dtodx(d) * (Flux(seed, g0, d, Up(c, d), FluxComp(d, comp))
                                           - Flux(seed, g0, d, c, FluxComp(d, comp)))]
              ELSE g.U[c]]]

\* variant: Step 13 without "B3i = B3c"
Average_2d_noB3i(g, r) ==
  [g EXCEPT
     !.U = [c \in Cells(r) |->
              IF IsActive(r, c)
              THEN [g.U[c] EXCEPT !.B1c = Half(g.B1i[c] + g.B1i[Up(c, 1)]),
                                  !.B2c = Half(g.B2i[c] + g.B2i[Up(c, 2)])]
              ELSE g.U[c]]]
\* integrate_2d, Step 13
Average_2d(g, r) ==
  [g EXCEPT
     !.U = [c \in Cells(r) |->
              IF IsActive(r, c)
              THEN [g.U[c] EXCEPT !.B1c = Half(g.B1i[c] + g.B1i[Up(c, 1)]),
                                  !.B2c = Half(g.B2i[c] + g.B2i[Up(c, 2)])]
              ELSE g.U[c]],
     !.B3i = [c \in Cells(r) |-> IF IsActive(r, c) THEN g.U[c].B3c ELSE g.B3i[c]]]

\* integrate_3d_ctu, Step 14
Average_3d(g, r) ==
  [g EXCEPT
     !.U = [c \in Cells(r) |->
              IF IsActive(r, c)
              THEN [g.U[c] EXCEPT !.B1c = Half(g.B1i[c] + g.B1i[Up(c, 1)]),
                                  !.B2c = Half(g.B2i[c] + g.B2i[Up(c, 2)]),
                                  !.B3c = Half(g.B3i[c] + g.B3i[Up(c, 3)])]
              ELSE g.U[c]]]

\* what a step leaves behind for its caller: dhalf, the positions at which
\* the potential was called, whether source terms were added, how the step
\* ended and what it reported (both integrators are void functions without
\* an error path)
StepRecord(dh, calls, source, outcome) ==
  [dhalf |-> dh, calls |-> calls, source |-> source, outcome |-> outcome, reported |-> {}]

integrate_2d(g, r, seed) ==
  LET dh == dhalf(g, r, seed)
      g9 == CT_2d(g, r, seed)
      g10 == IF cfg.StaticGravPot THEN GravSource(g9, g, r, seed, dh) ELSE g9
  IN [g |-> Average_2d(FluxUpdate(FluxUpdate(g10, g, r, seed, 1), g, r, seed, 2), r),
      step |-> StepRecord(dh, IF cfg.StaticGravPot THEN GravCalls(r) ELSE {},
                          cfg.StaticGravPot, "returned")]

\* how a call through a NULL StaticGravPot can end
NullOutcomes == {"crash", "garbage"}

\* the ways Step 12 of integrate_3d_ctu can go in this build
Step12(r) ==
  IF Cardinality(MultiZoneDirs(r)) = 3 /\ cfg.SHEARING_BOX_EVOLUTION /\ ~cfg.StaticGravPot
  THEN NullOutcomes ELSE {"returned"}

integrate_3d_ctu(g, r, seed, out) ==
  LET dh == dhalf(g, r, seed)
      g11 == CT_3d(g, r, seed)
      g12 == IF cfg.SHEARING_BOX_EVOLUTION THEN ShearSource(g11, g, r, seed, dh)
             ELSE IF cfg.StaticGravPot THEN GravSource(g11, g, r, seed, dh)
             ELSE g11
      calls == IF cfg.SHEARING_BOX_EVOLUTION \/ cfg.StaticGravPot THEN GravCalls(r) ELSE {}
      c0 == <<is_d(r, 1), is_d(r, 2), is_d(r, 3)>>
  IN IF out = "crash"
     THEN \* the first call, in the first cell of the loop, ends the process
          [g |-> [g11 EXCEPT !.U[c0].M1 = g12.U[c0].M1, !.U[c0].M2 = g12.U[c0].M2],
           step |-> StepRecord(dh, {cc_pos(c0)}, TRUE, "crash")]
     ELSE [g |-> Average_3d(FluxUpdate(FluxUpdate(FluxUpdate(g12, g, r, seed, 1), g, r, seed, 2),
                                       g, r, seed, 3), r),
           step |-> StepRecord(dh, calls, cfg.SHEARING_BOX_EVOLUTION \/ cfg.StaticGravPot, out)]

\* the interfaces the CT update of rank r writes
CTFaces(r) == { f \in MultiZoneDirs(r) \X Cells(r) : CTRange(r, f[1], f[2]) }

\* the step of rank r was ended by a signal
Crashed(r) == step[r] # None /\ step[r].outcome = "crash"

\* one step of the integrator of the Grid's dimension
Integrate(r) ==
  /\ pc[r] = 0
  /\ ~Crashed(r)
  /\ Cardinality(MultiZoneDirs(r)) >= 2
  /\ \E seed \in Seeds : \E out \in Step12(r) :
       LET res == IF Cardinality(MultiZoneDirs(r)) = 3
                  THEN integrate_3d_ctu(GridOf(r), r, seed, out)
                  ELSE integrate_2d(GridOf(r), r, seed)
       IN /\ SetGrid(r, res.g)
          /\ step' = [step EXCEPT ![r] = res.step]
          /\ ctface' = [ctface EXCEPT ![r] = [f \in CTFaces(r) |-> Bi(res.g, f[1])[f[2]]]]
          /\ pc' = [pc EXCEPT ![r] = IF res.step.outcome = "crash" THEN 0 ELSE 1]
  /\ sent' = [sent EXCEPT ![r] = None]
  /\ UNCHANGED <<kern, scratch, boot, prev, cfg, ncall, posted, chan, recv_buf, send_buf, insend, log, snap>>

Init ==
  /\ cfg \in MPIConfigs
  /\ InitGrid
  /\ Booted

Next ==
  \/ \E r \in Ranks : Apply(r)
  \/ \E r \in Ranks : Shear(r)
  \/ \E r \in Ranks : Irecv(r)
  \/ \E r \in Ranks : Send(r)
  \/ \E r \in Ranks : SendReturn(r)
  \/ \E r \in Ranks : Match(r)
  \/ \E r \in Ranks : Receive(r)
  \/ \E r \in Ranks : Return(r)
  \/ \E r \in Ranks : Integrate(r)

Spec == Init /\ [][Next]_vars

(***************************************************************************)
(* Start-up of a rank: the problem generator enrolls its boundary          *)
(* functions with set_bvals_mhd_fun, then main calls set_bvals_mhd_init.   *)
(* The flags are whatever the input file holds.                            *)
(***************************************************************************)
\* the flags of the input file: all periodic, all outflow, or all periodic
\* but one face
FlagFiles ==
  { <<4, 4, 4, 4, 4, 4>>, <<2, 2, 2, 2, 2, 2>> }
  \cup { [f \in Faces |-> IF f = h THEN v ELSE 4] : h \in Faces, v \in {3, 5} }

\* the faces the problem generator enrolls a function for
FunSets == { {}, {1}, {4}, {5, 6} }

\* 1D, 2D and 3D Domains on one Grid or decomposed, with tiles of different sizes
Decompositions ==
  { << <<1, 1, 1>>, << <<nghost>>, <<nghost + ExtraZones>>, <<1>> >> >>,
    << <<2, 1, 1>>, << <<nghost, nghost + ExtraZones>>, <<1>>, <<1>> >> >>,
    << <<1, 2, 1>>, << <<nghost + ExtraZones>>, <<nghost, nghost>>, <<1>> >> >>,
    << <<2, 2, 1>>, << <<nghost, nghost + ExtraZones>>, <<nghost + ExtraZones, nghost>>, <<1>> >> >>,
    << <<1, 2, 2>>, << <<nghost>>, <<nghost, nghost + ExtraZones>>,
                       <<nghost + ExtraZones, nghost>> >> >> }

\* every flag file and enrolment on one or two Grids, a few on four
StartConfigs ==
  { [MkCfg(dc[1], dc[2], <<4, 4>>, <<4, 4>>, <<4, 4>>, FALSE, TRUE, FALSE)
       EXCEPT !.bc = b, !.fun = fs] :
      dc \in {x \in Decompositions : x[1][1] * x[1][2] * x[1][3] <= 2},
      b \in FlagFiles, fs \in FunSets }
  \cup
  { [MkCfg(dc[1], dc[2], <<4, 4>>, <<4, 4>>, <<4, 4>>, FALSE, TRUE, FALSE)
       EXCEPT !.bc = b, !.fun = fs] :
      dc \in {x \in Decompositions : x[1][1] * x[1][2] * x[1][3] > 2},
      b \in {<<4, 4, 4, 4, 4, 4>>, <<2, 2, 2, 2, 2, 2>>, <<4, 4, 4, 4, 3, 4>>},
      fs \in {{}, {5, 6}} }

InitStart ==
  /\ cfg \in StartConfigs
  /\ InitGrid
  /\ boot = [r \in Ranks |-> [status |-> "start", apply |-> NoFun, size |-> 0]]
  /\ step = [r \in Ranks |-> None]

\* the problem generator of rank r
Problem(r) ==
  /\ boot[r].status = "start"
  /\ boot' = [boot EXCEPT ![r] = [@ EXCEPT !.status = "problem",
                                            !.apply = set_bvals_mhd_fun(@, cfg.fun)]]
  /\ UNCHANGED <<kern, scratch, cfg, U, B1i, B2i, B3i, pc, ncall, posted, chan, recv_buf, send_buf,
                 insend, log, snap, sent, ctface, step, prev>>

\* set_bvals_mhd_init(pG, pD) on rank r
BvalsInit(r) ==
  /\ boot[r].status = "problem"
  /\ boot' = [boot EXCEPT ![r] = set_bvals_mhd_init(r, boot[r].apply)]
  /\ UNCHANGED <<kern, scratch, cfg, U, B1i, B2i, B3i, pc, ncall, posted, chan, recv_buf, send_buf,
                 insend, log, snap, sent, ctface, step, prev>>

NextStart ==
  \/ \E r \in Ranks : Problem(r)
  \/ \E r \in Ranks : BvalsInit(r)

SpecStart == InitStart /\ [][NextStart]_vars

(***************************************************************************)
(* Periodic wrapping on one Grid.                                          *)
(***************************************************************************)
WrapIdx(r, t, v, keepUp) ==
  IF v < is_d(r, t) THEN v + Nx(r, t)
  ELSE IF v > ie_d(r, t) /\ ~(keepUp /\ v = ie_d(r, t) + 1) THEN v - Nx(r, t)
  ELSE v

\* the active cell a ghost cell corresponds to
Wrap(r, c) == [t \in Dirs |-> WrapIdx(r, t, c[t], FALSE)]
\* the same for the interface array of direction a, whose active faces are
\* is..ie+1 along a
WrapFace(r, a, c) == [t \in Dirs |-> WrapIdx(r, t, c[t], t = a /\ Nx(r, t) > 1)]

AllPeriodic == \A n \in 1..6 : cfg.bc[n] = 4

\* C2: on a single grid with two or three multi-zone directions and periodic
\* flags on all faces, once a set_bvals_mhd call has returned every ghost cell
\* (edges and corners included) holds the Gas values of the active cell at the
\* periodically wrapped index, and every ghost interface value that of the
\* wrapped interface.
C2_PeriodicCorners ==
  \A r \in Ranks :
    (NRanks(cfg) = 1 /\ AllPeriodic /\ Cardinality(MultiZoneDirs(r)) >= 2 /\ ncall[r] >= 1)
      => \A c \in Cells(r) :
           /\ U[r][c] = U[r][Wrap(r, c)]
           /\ \A a \in MultiZoneDirs(r) : Bi(GridOf(r), a)[c] = Bi(GridOf(r), a)[WrapFace(r, a, c)]

C2_Witness ==
  \E r \in Ranks :
    /\ NRanks(cfg) = 1 /\ AllPeriodic /\ Cardinality(MultiZoneDirs(r)) = 3 /\ ncall[r] >= 1
    /\ U[r][<<0, 0, 0>>] = InitGas(r, Wrap(r, <<0, 0, 0>>))
    /\ U[r][<<0, 0, 0>>] # InitGas(r, <<0, 0, 0>>)

\* C9: a second set_bvals_mhd call directly after the first changes nothing
C9_Idempotent ==
  \A r \in Ranks : ncall[r] >= 2 => GridOf(r) = snap[r]

(***************************************************************************)
(* Order of the operations of one call (the log of the call).              *)
(***************************************************************************)
\* the face (d, side) of rank r is finished before log entry j: its policy
\* was applied, or its neighbour data was received and unpacked
FaceDone(r, d, side, j) ==
  \E i \in 1..(j - 1) :
    /\ log[r][i].d = d
    /\ log[r][i].side = side
    /\ log[r][i].op \in {"apply", "recv"}

Key(e) ==
  << e.op, e.side,
     IF "peer" \in DOMAIN e THEN e.peer ELSE -1,
     IF "lo" \in DOMAIN e THEN e.lo ELSE -1,
     IF "hi" \in DOMAIN e THEN e.hi ELSE -1 >>

DirLog(r, d) ==
  LET InDir(e) == e.d = d /\ e.op # "shear"
      sel == SelectSeq(log[r], InDir)
  IN [n \in 1..Len(sel) |-> Key(sel[n])]

BothSides(r, d) ==
  cfg.MPI_PARALLEL /\ Nx(r, d) > 1 /\ lx_id(r, d) >= 0 /\ rx_id(r, d) >= 0

ExchangeOrder(r, d) ==
  LET s == is_d(r, d)
      e == ie_d(r, d)
      L == lx_id(r, d)
      R == rx_id(r, d)
  IN << <<"irecv", "i", L, -1, -1>>,
        <<"send", "o", R, e - nghost + 1, e>>,
        <<"recv", "i", L, s - nghost, s - 1>>,
        <<"irecv", "o", R, -1, -1>>,
        <<"send", "i", L, s, s + nghost - 1>>,
        <<"recv", "o", R, e + 1, e + nghost>> >>

IsPrefix(a, b) == Len(a) <= Len(b) /\ \A n \in 1..Len(a) : a[n] = b[n]

OwnerIdx(r, t, v, shared) ==
  LET b == get_myGridIndex(r)[t]
      n == cfg.NGrid[t]
      lb == (b + n - 1) % n
      rb == (b + 1) % n
  IN IF Nx(r, t) = 1 THEN <<b, v>>
     ELSE IF v < is_d(r, t) THEN <<lb, v + cfg.tile[t][lb + 1]>>
     ELSE IF v > ie_d(r, t) /\ ~(shared /\ n = 1 /\ v = ie_d(r, t) + 1)
          THEN <<rb, v - Nx(r, t)>>
     ELSE <<b, v>>

\* the rank and cell of the active zone a cell of rank r corresponds to;
\* a = 0 for the Gas, a = 1, 2, 3 for the interface array of direction a
Owner(r, c, a) ==
  LET o == [t \in Dirs |-> OwnerIdx(r, t, c[t], t = a)]
  IN [rank |-> GridArray(o[1][1], o[2][1], o[3][1]),
      cell |-> <<o[1][2], o[2][2], o[3][2]>>]

\* rank r has returned from its n-th set_bvals_mhd call and done nothing since
Returned(r, n) ==
  /\ ncall[r] = n
  /\ \/ pc[r] = 0
     \/ pc[r] = 1 /\ ~cfg.integrate /\ log[r] = <<>>
     \/ n = Calls /\ AtEnd(r)

PeriodicMPI == cfg.MPI_PARALLEL /\ AllPeriodic /\ NRanks(cfg) > 1

\* B1i at ie+1 is left alone by receive_ox1 of a SHEARING_BOX build
KeptFace(r, c, a) == cfg.SHEARING_BOX /\ a = 1 /\ c[1] = ie_d(r, 1) + 1

Names == {PackList[n] : n \in DOMAIN PackList}

\* the values rank r holds in the cells of the box it just unpacked are the
\* values the sender held in the cells it packed, name by name
SameAsSent(r, c, name) ==
  Value(GridOf(r), c, name) = sent[r].img[PosOf(sent[r].box, c)][name]

\* C10 as stated: after a receive function every component of every cell of
\* the unpacked region holds the sender's value of that component of the
\* corresponding cell.
C10_Original ==
  \A r \in Ranks :
    sent[r] # None =>
      \A c \in BoxCells(sent[r].box) : \A name \in Names : SameAsSent(r, c, name)

\* C10 (amended): the same, except that receive_ox1 of a SHEARING_BOX build
\* skips the buffer entry of B1i in the layer i = ie+1 and leaves B1i there
\* as it was.
C10_UnpackMatchesPack ==
  \A r \in Ranks :
    sent[r] # None =>
      \A c \in BoxCells(sent[r].box) : \A name \in Names :
        IF name = "B1i" /\ cfg.SHEARING_BOX /\ sent[r].d = 1 /\ sent[r].side = "o"
           /\ c[1] = ie_d(r, 1) + 1
        THEN B1i[r][c] = sent[r].B1i[c]
        ELSE SameAsSent(r, c, name)

C10_Witness ==
  \E r \in Ranks :
    /\ sent[r] # None
    /\ cfg.SHEARING_BOX /\ sent[r].d = 1 /\ sent[r].side = "o" /\ Nx(r, 2) > 1
    /\ \A c \in BoxCells(sent[r].box) : SameAsSent(r, c, "s") /\ SameAsSent(r, c, "B2i")

(***************************************************************************)
(* Termination.                                                            *)
(***************************************************************************)
\* C3: when every rank calls set_bvals_mhd once, every rank's call returns:
\* in every reachable state in which no rank has started a second call,
\* either every rank has returned from its call or a rank that has not can
\* take a step (or the MPI library can complete a send or a receive of it).
C3_NoRankWaitsForever ==
  (\A r \in Ranks : ncall[r] = 0 \/ Returned(r, 1)) =>
    \/ \A r \in Ranks : ncall[r] >= 1
    \/ \E r \in Ranks :
         /\ ncall[r] = 0
         /\ \/ pc[r] = 0
            \/ AtOp(r, "apply") \/ AtOp(r, "shear") \/ AtOp(r, "irecv")
            \/ CanSend(r) \/ CanSendReturn(r) \/ CanMatch(r) \/ CanReceive(r)
            \/ CanReturn(r)

(***************************************************************************)
(* Runs of the integrator on one Grid, started from a divergence-free      *)
(* interface field (the curl of a vector potential plus a uniform field)   *)
(* with the cell-centered field its average.                               *)
(***************************************************************************)
\* the vector potential, in units of dt, at the cell edge c; on a Domain
\* that is periodic on all faces the potential has the period of the Domain
Potential(r, seed, a, c) ==
  LET e == IF AllPeriodic THEN Wrap(r, c) ELSE c
  IN 2 * ((seed * (5 * a + 3 * e[1] + 7 * e[2] + 11 * e[3])) % 13)

Curl2d(r, seed, a, c) ==
  CASE a = 1 -> 4 + dtodx(2) * (Potential(r, seed, 3, Up(c, 2)) - Potential(r, seed, 3, c))
    [] a = 2 -> 6 - dtodx(1) * (Potential(r, seed, 3, Up(c, 1)) - Potential(r, seed, 3, c))
    [] OTHER -> 2 * (seed + c[1] + 3 * c[2])

Curl3d(r, seed, a, c) ==
  LET a1 == (a % 3) + 1
      a2 == (a1 % 3) + 1
  IN 2 * a + dtodx(a1) * (Potential(r, seed, a2, Up(c, a1)) - Potential(r, seed, a2, c))
           - dtodx(a2) * (Potential(r, seed, a1, Up(c, a2)) - Potential(r, seed, a1, c))

InitFace(r, seed, a, c) ==
  IF Cardinality(MultiZoneDirs(r)) = 3 THEN Curl3d(r, seed, a, c) ELSE Curl2d(r, seed, a, c)

FaceUp(r, c, a) == IF Nx(r, a) > 1 THEN Up(c, a) ELSE c

CTConfigs ==
  { WithSteps(MkCfg(<<1, 1, 1>>, << <<a>>, <<b>>, <<1>> >>, p, q, p, FALSE, FALSE, FALSE)) :
      a \in EndSizes, b \in EndSizes, p \in {<<4, 4>>, <<2, 5>>}, q \in {<<4, 4>>, <<5, 2>>} }
  \cup { WithSteps(MkCfg(<<1, 1, 1>>, << <<nghost>>, <<nghost>>, <<nghost>> >>, p, p, p,
                         FALSE, FALSE, FALSE)) :
      p \in {<<4, 4>>, <<5, 2>>} }
  \cup { [WithSteps(MkCfg(<<1, 1, 1>>, << <<nghost>>, <<nghost>>, <<nghost>> >>,
                          <<4, 4>>, <<4, 4>>, <<4, 4>>, FALSE, FALSE, FALSE))
            EXCEPT !.StaticGravPot = b[1], !.SHEARING_BOX_EVOLUTION = b[2]] :
      b \in {<<TRUE, FALSE>>, <<FALSE, TRUE>>, <<TRUE, TRUE>>} }
  \cup { [WithSteps(MkCfg(<<1, 1, 1>>, << <<nghost>>, <<nghost + ExtraZones>>, <<1>> >>,
                          p, p, p, FALSE, FALSE, FALSE))
            EXCEPT !.StaticGravPot = TRUE] :
      p \in {<<4, 4>>, <<2, 5>>} }

InitCT ==
  /\ cfg \in CTConfigs
  /\ \E seed \in Seeds :
       /\ B1i = [r \in Ranks |-> [c \in Cells(r) |-> InitFace(r, seed, 1, c)]]
       /\ B2i = [r \in Ranks |-> [c \in Cells(r) |-> InitFace(r, seed, 2, c)]]
       /\ B3i = [r \in Ranks |-> [c \in Cells(r) |-> InitFace(r, seed, 3, c)]]
       /\ U = [r \in Ranks |-> [c \in Cells(r) |->
                 [InitGas(r, c) EXCEPT
                    !.B1c = Half(InitFace(r, seed, 1, c) + InitFace(r, seed, 1, FaceUp(r, c, 1))),
                    !.B2c = Half(InitFace(r, seed, 2, c) + InitFace(r, seed, 2, FaceUp(r, c, 2))),
                    !.B3c = Half(InitFace(r, seed, 3, c) + InitFace(r, seed, 3, FaceUp(r, c, 3)))]]]
  /\ pc = [r \in Ranks |-> 1]
  /\ ncall = [r \in Ranks |-> 0]
  /\ posted = [r \in Ranks |-> <<>>]
  /\ chan = EmptyChan
  /\ recv_buf = [r \in Ranks |-> <<>>]
  /\ send_buf = [r \in Ranks |-> <<>>]
  /\ insend = [r \in Ranks |-> -1]
  /\ log = [r \in Ranks |-> <<>>]
  /\ snap = [r \in Ranks |-> None]
  /\ sent = [r \in Ranks |-> None]
  /\ ctface = [r \in Ranks |-> <<>>]
  /\ prev = [r \in Ranks |-> <<>>]
  /\ kern = None
  /\ scratch = None
  /\ Booted

NextCT ==
  \/ \E r \in Ranks : Apply(r)
  \/ \E r \in Ranks : Return(r)
  \/ \E r \in Ranks : Integrate(r)

SpecCT == InitCT /\ [][NextCT]_vars

\* compute_div_b, times dt: the divergence of the interface field in cell c
compute_div_b(r, c) ==
  dtodx(1) * (B1i[r][Up(c, 1)] - B1i[r][c])
  + (IF ie_d(r, 2) > is_d(r, 2) THEN dtodx(2) * (B2i[r][Up(c, 2)] - B2i[r][c]) ELSE 0)
  + (IF ie_d(r, 3) > is_d(r, 3) THEN dtodx(3) * (B3i[r][Up(c, 3)] - B3i[r][c]) ELSE 0)

\* C6: an interface field with zero discrete divergence in every active
\* cell keeps it through every integrator step, whatever the corner EMFs.
C6_DivBPreserved ==
  \A r \in Ranks : \A c \in Cells(r) : IsActive(r, c) => compute_div_b(r, c) = 0

Stepped(r) == DOMAIN ctface[r] # {} /\ pc[r] = 1 /\ log[r] = <<>>

C6_Witness ==
  \E r \in Ranks :
    /\ Stepped(r) /\ Cardinality(MultiZoneDirs(r)) = 3
    /\ \E c \in Cells(r) :
         /\ IsActive(r, c) /\ c[1] = ie_d(r, 1) /\ c[2] = ie_d(r, 2) /\ c[3] = ie_d(r, 3)
         /\ \A a \in Dirs : Bi(GridOf(r), a)[Up(c, a)] # Bi(snap[r], a)[Up(c, a)]

\* C7: at the end of an integrator step, in every active cell each
\* cell-centered field component is exactly half the sum of the interface
\* values on the two opposite faces of the cell (in 2D the two x3 faces of a
\* cell are the one stored plane of B3i).
C7_CellCenteredAverage ==
  \A r \in Ranks :
    Stepped(r) =>
      \A c \in Cells(r) : IsActive(r, c) =>
        \A a \in Dirs :
          2 * U[r][c][Bc(a)] = Bi(GridOf(r), a)[c] + Bi(GridOf(r), a)[FaceUp(r, c, a)]

C7_Witness ==
  \E r \in Ranks :
    /\ Stepped(r) /\ Cardinality(MultiZoneDirs(r)) = 2
    /\ \E c \in Cells(r) :
         /\ IsActive(r, c)
         /\ U[r][c].B3c # snap[r].U[c].B3c
         /\ U[r][c].B1c # snap[r].U[c].B1c

(***************************************************************************)
(* Interfaces shared by two neighbouring ranks.                            *)
(***************************************************************************)
\* rank r has the right neighbour rx_id(r, a) along a, and c is a face of
\* its interface array of direction a at ie+1
SharedFace(r, a, c) ==
  /\ cfg.MPI_PARALLEL /\ Nx(r, a) > 1 /\ rx_id(r, a) >= 0
  /\ c[a] = ie_d(r, a) + 1
  /\ \A t \in Dirs \ {a} : c[t] \in Act(r, t)

\* the same face in the right neighbour's indices
OnRight(r, a, c) == At(c, a, is_d(rx_id(r, a), a))

PerpCnt(r, d) ==
  LET n(t) == IF t = d THEN 1
              ELSE IF t < d THEN Cardinality(Ext(r, t)) ELSE Cardinality(ActUp(r, t))
  IN n(1) * n(2) * n(3)

\* C11: the count of every message sent equals the number of doubles the
\* packing loop wrote and nghost * perp_cnt * NVAR_SHARE, and the count of
\* the receive it is matched with is the same.
C11_MessageCounts ==
  /\ \A p \in DOMAIN chan : \A n \in DOMAIN chan[p] :
        /\ chan[p][n].cnt = Len(chan[p][n].data)
        /\ chan[p][n].cnt = nghost * PerpCnt(p[1], chan[p][n].d) * NVAR_SHARE
  /\ \A r \in Ranks : \A n \in DOMAIN posted[r] :
        /\ posted[r][n].cnt = nghost * PerpCnt(r, posted[r][n].d) * NVAR_SHARE
        /\ posted[r][n].matched =>
              /\ posted[r][n].msgcnt = posted[r][n].cnt
              /\ Len(recv_buf[r]) = posted[r][n].cnt

C11_Witness ==
  \E r \in Ranks :
    /\ posted[r] # <<>> /\ posted[r][1].matched
    /\ posted[r][1].d = 2 /\ Nx(r, 1) > 1
    /\ posted[r][1].msgcnt = nghost * (Nx(r, 1) + 2 * nghost) * NVAR_SHARE

\* the next receive operation (post or wait) of rank r, from its position on
NextComm(r) ==
  LET S == {p \in DOMAIN Prog(r) : p >= pc[r] /\ Prog(r)[p].op \in {"irecv", "recv"}}
  IN IF S = {} THEN None ELSE Prog(r)[CHOOSE p \in S : \A q \in S : p <= q]

OpDoubles(r, o) ==
  CASE o.op = "irecv" -> {IrecvCnt(r, o.d)}
    [] o.op = "send" ->
         LET box == IF o.side = "i" THEN send_ix_box(r, o.d) ELSE send_ox_box(r, o.d)
         IN {BoxCnt(box), Len(Pack(GridOf(r), box))}
    [] o.op = "recv" ->
         LET box == IF o.side = "i" THEN receive_ix_box(r, o.d) ELSE receive_ox_box(r, o.d)
         IN {BoxSize(box) * Len(UnpackList)}
    [] OTHER -> {}

\* C13: once set_bvals_mhd_init has returned, send_buf and recv_buf hold at
\* least as many doubles as any operation of any set_bvals_mhd call of the
\* rank packs, sends, posts a receive for or unpacks, and as the buffers and
\* the messages in flight hold.
C13_BuffersLargeEnough ==
  \A r \in Ranks :
    boot[r].status = "returned" =>
      /\ \A p \in DOMAIN Prog(r) : \A n \in OpDoubles(r, Prog(r)[p]) : n <= boot[r].size
      /\ Len(send_buf[r]) <= boot[r].size
      /\ Len(recv_buf[r]) <= boot[r].size
      /\ \A n \in DOMAIN posted[r] : posted[r][n].cnt <= boot[r].size

\* a decomposition with tiles of different sizes: the largest message of a
\* rank fills the buffer, a message of another rank does not
C13_Witness ==
  \E r \in Ranks : \E q \in Ranks :
    /\ boot[r].status = "returned" /\ boot[q].status = "returned"
    /\ \E p \in DOMAIN Prog(r) : Prog(r)[p].op = "send" /\ boot[r].size \in OpDoubles(r, Prog(r)[p])
    /\ \E p \in DOMAIN Prog(q) :
         /\ Prog(q)[p].op = "send" /\ Prog(q)[p].d = 3
         /\ \A n \in OpDoubles(q, Prog(q)[p]) : n < boot[q].size

\* the faces of rank r whose flag set_bvals_mhd_init reads: more than one
\* zone along the direction, no function enrolled by the problem generator
FlagRead(r, f) == Nx(r, FaceDir(f)) > 1 /\ f \notin cfg.fun

\* C14 as stated: an unknown flag on any of the six faces is fatal
C14_Original ==
  \A r \in Ranks :
    (boot[r].status \in {"returned", "exit"} /\ \E f \in Faces : cfg.bc[f] \notin {1, 2, 4, 5})
      => boot[r].status = "exit"

\* C14 (amended): set_bvals_mhd_init exits with a failure status exactly
\* when a flag it reads is not 1, 2, 4 or 5; it reads the flag of a face
\* only if the Grid has more than one zone along the direction of the face
\* and no function has been enrolled for the face.  When it returns, every
\* such face has the policy of its flag.
C14_UnknownFlagFatal ==
  \A r \in Ranks :
    boot[r].status \in {"returned", "exit"} =>
      /\ boot[r].status = "exit" <=>
            \E f \in Faces : FlagRead(r, f) /\ cfg.bc[f] \notin {1, 2, 4, 5}
      /\ boot[r].status = "returned" =>
            \A f \in Faces : FlagRead(r, f) =>
              /\ cfg.bc[f] \in {1, 5} => boot[r].apply[f] = "reflect"
              /\ cfg.bc[f] = 2 => boot[r].apply[f] = "outflow"
              /\ cfg.bc[f] = 4 => boot[r].apply[f] = "periodic"

C14_Witness ==
  \E r \in Ranks : \E f \in Faces :
    /\ boot[r].status = "exit"
    /\ FlagRead(r, f) /\ cfg.bc[f] = 3

(***************************************************************************)
(* What an integrator step reports, and the gravitational source terms.    *)
(***************************************************************************)
\* C15: a step in which the half-step density of a cell is not positive
\* reports the cell (and the sweep) to its caller.
C15_NonPositiveReported ==
  \A r \in Ranks :
    step[r] # None =>
      \A c \in DOMAIN step[r].dhalf :
        step[r].dhalf[c] <= 0 => \E e \in step[r].reported : e.cell = c /\ e.sweep \in Dirs

\* C16: without an enrolled potential a step never calls the potential and
\* adds no gravitational source term, in every build.
C16_NoPotentialNoGravity ==
  \A r \in Ranks :
    (step[r] # None /\ ~cfg.StaticGravPot) =>
      /\ step[r].calls = {}
      /\ ~step[r].source
      /\ step[r].outcome = "returned"

(***************************************************************************)
(* Conservation of mass on a periodic Domain.                              *)
(***************************************************************************)
RECURSIVE SumOver(_, _)
\* the sum of f over the set S
SumOver(f, S) ==
  IF S = {} THEN 0
  ELSE LET x == CHOOSE y \in S : TRUE IN f[x] + SumOver(f, S \ {x})

ActiveCells == {x \in UNION { {r} \X Cells(r) : r \in Ranks } : IsActive(x[1], x[2])}

\* the sum of d over the active cells of the Domain
TotalMass(u) == SumOver([x \in ActiveCells |-> u[x[1]][x[2]].d], ActiveCells)

Applied(r, policy, side) ==
  /\ log[r] # <<>>
  /\ LET o == log[r][Len(log[r])]
     IN /\ o.op = "apply" /\ o.side = side
        /\ boot[r].apply[2 * o.d - (IF side = "i" THEN 1 ELSE 0)] = policy

LastDir(r) == log[r][Len(log[r])].d
LastFlag(r, side) == IF side = "i" THEN ibc(LastDir(r)) ELSE obc(LastDir(r))

\* the index of the boundary face along d, and the ghost layers behind it
BoundaryFace(r, d, side) == IF side = "i" THEN is_d(r, d) ELSE ie_d(r, d) + 1
IsGhost(r, d, side, c) == IF side = "i" THEN InnerGhost(r, d, c) ELSE OuterGhost(r, d, c)

\* the cell that is the mirror image of the ghost cell c in the boundary face
MirrorCell(r, d, side, c) == At(c, d, 2 * BoundaryFace(r, d, side) - 1 - c[d])
\* the face that is the mirror image of the face c in the boundary face
MirrorFace(r, d, side, c) == At(c, d, 2 * BoundaryFace(r, d, side) - c[d])

\* the gas of the ghost cells is the mirror image with the normal momentum
\* negated
GasMirrored(r, d, side) ==
  \A c \in Cells(r) :
    (IsGhost(r, d, side, c) /\ InT(r, d, c, 0)) =>
      \A comp \in DOMAIN U[r][c] :
        BcDir(comp) = 0 =>
          U[r][c][comp] = (IF comp = Mn(d) THEN -1 ELSE 1) * U[r][MirrorCell(r, d, side, c)][comp]

\* the tangential field components of the ghost zones, interface and
\* cell-centered, are sign times their mirror image
TangentialMirrored(r, d, side, sign) ==
  \A a \in Dirs \ {d} : \A c \in Cells(r) :
    (IsGhost(r, d, side, c) /\ InT(r, d, c, a)) =>
      /\ Bi(GridOf(r), a)[c] = sign * Bi(GridOf(r), a)[MirrorCell(r, d, side, c)]
      /\ U[r][c][Bc(a)] = sign * U[r][MirrorCell(r, d, side, c)][Bc(a)]

\* the normal field of the ghost zones, interface and cell-centered, is sign
\* times its mirror image
NormalMirrored(r, d, side, sign) ==
  \A c \in Cells(r) :
    (IsGhost(r, d, side, c) /\ InT(r, d, c, 0)) =>
      /\ U[r][c][Bc(d)] = sign * U[r][MirrorCell(r, d, side, c)][Bc(d)]
      /\ c[d] # BoundaryFace(r, d, side) =>
            Bi(GridOf(r), d)[c] = sign * Bi(GridOf(r), d)[MirrorFace(r, d, side, c)]

\* the normal interface field on the boundary face, over the range of the
\* function
OnBoundaryFace(r, d, side, c) == c[d] = BoundaryFace(r, d, side) /\ InT(r, d, c, 0)

\* C18: right after the reflecting function of a face with flag 1 the ghost
\* layers hold the mirror image of the active layers: gas and tangential
\* field copied, normal momentum negated, the normal interface field zero on
\* the boundary face, the normal field of the ghost zones negated; on the
\* inner and on the outer face.
C18_ReflectFlag1 ==
  \A r \in Ranks : \A side \in {"i", "o"} :
    (Applied(r, "reflect", side) /\ LastFlag(r, side) = 1) =>
      LET d == LastDir(r)
      IN /\ GasMirrored(r, d, side)
         /\ TangentialMirrored(r, d, side, 1)
         /\ NormalMirrored(r, d, side, -1)
         /\ \A c \in Cells(r) : OnBoundaryFace(r, d, side, c) => Bi(GridOf(r), d)[c] = 0

\* flag 1 on the outer x2 face of a 2D Grid: the face at je+1 was not zero
\* before, a ghost cell has a normal field that is not zero
C18_Witness ==
  \E r \in Ranks : \E c \in Cells(r) :
    /\ Applied(r, "reflect", "o") /\ LastFlag(r, "o") = 1 /\ LastDir(r) = 2
    /\ OnBoundaryFace(r, 2, "o", c) /\ prev[r][c] # 0
    /\ U[r][Up(c, 2)].B2c # 0 /\ B2i[r][Up(c, 2)] # 0 /\ U[r][c].M2 # 0

\* C19 as stated: with flag 5 the tangential field components of the ghost
\* zones are the mirror copies of flag 1, the normal field is mirrored with
\* its sign and the boundary face is untouched
C19_Original ==
  \A r \in Ranks : \A side \in {"i", "o"} :
    (Applied(r, "reflect", side) /\ LastFlag(r, side) = 5) =>
      LET d == LastDir(r)
      IN /\ GasMirrored(r, d, side)
         /\ TangentialMirrored(r, d, side, 1)
         /\ NormalMirrored(r, d, side, 1)
         /\ \A c \in Cells(r) : OnBoundaryFace(r, d, side, c) => Bi(GridOf(r), d)[c] = prev[r][c]

\* C19 (amended): with flag 5 the gas is mirrored as with flag 1, the normal
\* field is mirrored with its sign and its value on the boundary face is
\* untouched, and the tangential field components of the ghost zones
\* (interface and cell-centered) are the negative of their mirror image.
C19_ReflectFlag5 ==
  \A r \in Ranks : \A side \in {"i", "o"} :
    (Applied(r, "reflect", side) /\ LastFlag(r, side) = 5) =>
      LET d == LastDir(r)
      IN /\ GasMirrored(r, d, side)
         /\ TangentialMirrored(r, d, side, -1)
         /\ NormalMirrored(r, d, side, 1)
         /\ \A c \in Cells(r) : OnBoundaryFace(r, d, side, c) => Bi(GridOf(r), d)[c] = prev[r][c]

\* flag 5 on the inner x1 face of a 2D Grid, with tangential and normal
\* fields that are not zero
C19_Witness ==
  \E r \in Ranks : \E c \in Cells(r) :
    /\ Applied(r, "reflect", "i") /\ LastFlag(r, "i") = 5 /\ LastDir(r) = 1
    /\ Nx(r, 2) > 1
    /\ OnBoundaryFace(r, 1, "i", c) /\ B1i[r][c] # 0
    /\ B2i[r][Down(c, 1)] # 0 /\ U[r][Down(c, 1)].B3c # 0 /\ B1i[r][Down(c, 1)] # 0

\* the cell an outer ghost cell is filled from: the last active cell
\* (outflow), the active cell one period back (periodic)
OuterSource(r, d, policy, c) ==
  IF policy = "outflow" THEN At(c, d, ie_d(r, d)) ELSE At(c, d, c[d] - Nx(r, d))

\* C20: right after the outflow or periodic function of the outer face of
\* direction d the normal interface field at ie+1 (je+1, ke+1) is what it
\* was before; that array is filled in the ghost layers 2..nghost, the gas
\* and the other interface arrays in the layers 1..nghost.
C20_OuterNormalFaceKept ==
  \A r \in Ranks : \A policy \in {"outflow", "periodic"} :
    Applied(r, policy, "o") =>
      LET d == LastDir(r)
          g == GridOf(r)
      IN \A c \in Cells(r) :
           /\ c[d] = ie_d(r, d) + 1 => Bi(g, d)[c] = prev[r][c]
           /\ (OuterGhost(r, d, c) /\ c[d] >= ie_d(r, d) + 2 /\ InT(r, d, c, d)) =>
                 Bi(g, d)[c] = Bi(g, d)[OuterSource(r, d, policy, c)]
           /\ (OuterGhost(r, d, c) /\ InT(r, d, c, 0)) => U[r][c] = U[r][OuterSource(r, d, policy, c)]
           /\ \A a \in Dirs \ {d} :
                 (OuterGhost(r, d, c) /\ InT(r, d, c, a)) =>
                   Bi(g, a)[c] = Bi(g, a)[OuterSource(r, d, policy, c)]

\* the periodic function of the outer x3 face of a 3D Grid: B3i at ke+1 is
\* not the value a copy would have put there, B3i at ke+2 is the copy
C20_Witness ==
  \E r \in Ranks : \E c \in Cells(r) :
    /\ Applied(r, "periodic", "o") /\ LastDir(r) = 3
    /\ IsActive(r, c) /\ c[3] = ie_d(r, 3)
    /\ B3i[r][Up(c, 3)] # B3i[r][OuterSource(r, 3, "periodic", Up(c, 3))]
    /\ B3i[r][Up(Up(c, 3), 3)] = B3i[r][OuterSource(r, 3, "periodic", Up(Up(c, 3), 3))]
    /\ B3i[r][Up(Up(c, 3), 3)] # prev[r][Up(Up(c, 3), 3)]

(***************************************************************************)
(* receive_ox1 of a SHEARING_BOX build.                                    *)
(***************************************************************************)
\* rank r has just unpacked the message of its right x1 neighbour in a
\* SHEARING_BOX build
ShearUnpacked(r) ==
  /\ cfg.SHEARING_BOX /\ sent[r] # None
  /\ sent[r].d = 1 /\ sent[r].side = "o"

\* the entry of recv_buf that belongs to component name of cell c: the
\* cells in loop order, NVAR_SHARE entries per cell in the order of the
\* assignments
BufEntry(r, c, name) ==
  recv_buf[r][PosOf(sent[r].box, c) * NVAR_SHARE + IndexIn(UnpackList, name)]

\* C21: in a SHEARING_BOX build the unpacking of the right x1 neighbour's
\* message leaves B1i at ie+1 as it was for every j and k, skips the buffer
\* entry of that value, and writes every other value of the message to its
\* ghost cell.
C21_ShearKeepsB1i ==
  \A r \in Ranks :
    ShearUnpacked(r) =>
      /\ \A c \in Cells(r) : c[1] = ie_d(r, 1) + 1 => B1i[r][c] = sent[r].B1i[c]
      /\ \A c \in BoxCells(sent[r].box) : \A name \in Names :
            ~(name = "B1i" /\ c[1] = ie_d(r, 1) + 1) =>
              Value(GridOf(r), c, name) = BufEntry(r, c, name)

\* the value kept at ie+1 is not the one of the skipped entry, and the
\* entries after the skipped one went to B2i and B3i of the same cell
C21_Witness ==
  \E r \in Ranks : \E c \in Cells(r) :
    /\ ShearUnpacked(r) /\ Nx(r, 2) > 1
    /\ c[1] = ie_d(r, 1) + 1 /\ c[2] = ie_d(r, 2) + 1
    /\ B1i[r][c] # BufEntry(r, c, "B1i")
    /\ B2i[r][c] = BufEntry(r, c, "B2i") /\ B2i[r][c] # sent[r].B1i[c]
    /\ \E c2 \in BoxCells(sent[r].box) : c2[1] > c[1] /\ B1i[r][c2] = BufEntry(r, c2, "B1i")

(***************************************************************************)
(* The kernels of the integrators, each on its own.  A kernel is applied   *)
(* to the arrays it reads around one loop index: x1Flux[k-1][j][i] of the  *)
(* source is in.x1Flux[<<-1, 0, 0>>], the offsets being <<dk, dj, di>>.    *)
(* While a kernel is run the Grid and the ranks are not there.             *)
(***************************************************************************)
GridIdle ==
  /\ cfg = None /\ U = <<>> /\ B1i = <<>> /\ B2i = <<>> /\ B3i = <<>>
  /\ pc = <<>> /\ ncall = <<>> /\ posted = <<>> /\ chan = <<>>
  /\ recv_buf = <<>> /\ send_buf = <<>> /\ insend = <<>> /\ log = <<>>
  /\ snap = <<>> /\ sent = <<>> /\ ctface = <<>> /\ boot = <<>>
  /\ step = <<>> /\ prev = <<>>

GridVars == <<cfg, U, B1i, B2i, B3i, pc, ncall, posted, chan, recv_buf, send_buf,
              insend, log, snap, sent, ctface, boot, step, prev>>

Offsets == {-1, 0} \X {-1, 0} \X {-1, 0}

\* the offset that is s along direction t and 0 along the others
Shift(t, s) == [p \in 1..3 |-> IF p = 4 - t THEN s ELSE 0]

NextDir(a) == (a % 3) + 1
PrevDir(a) == ((a + 1) % 3) + 1

\* if (d > 0.0) ... else if (d < 0.0) ... else {...}
Upwind(d, pos, neg, zero) == IF d > 0 THEN pos ELSE IF d < 0 THEN neg ELSE zero

\* integrate_emf3_corner of the 2D integrator at (j, i); the four emf_?? of
\* the source carry the face term, which is taken off here to leave the
\* derivative correction
integrate_emf3_corner_2d(in) ==
  LET x1Flux == in.x1Flux  x2Flux == in.x2Flux  emf3_cc == in.emf_cc
      emf_l2 == Upwind(x1Flux[<<0,-1,0>>].d,
                  -x1Flux[<<0,-1,0>>].By + (x2Flux[<<0,0,-1>>].Bz - emf3_cc[<<0,-1,-1>>]),
                  -x1Flux[<<0,-1,0>>].By + (x2Flux[<<0,0,0>>].Bz - emf3_cc[<<0,-1,0>>]),
                  -x1Flux[<<0,-1,0>>].By
                    + (x2Flux[<<0,0,-1>>].Bz - emf3_cc[<<0,-1,-1>>]
                       + x2Flux[<<0,0,0>>].Bz - emf3_cc[<<0,-1,0>>]) \div 2)
      emf_r2 == Upwind(x1Flux[<<0,0,0>>].d,
                  -x1Flux[<<0,0,0>>].By + (x2Flux[<<0,0,-1>>].Bz - emf3_cc[<<0,0,-1>>]),
                  -x1Flux[<<0,0,0>>].By + (x2Flux[<<0,0,0>>].Bz - emf3_cc[<<0,0,0>>]),
                  -x1Flux[<<0,0,0>>].By
                    + (x2Flux[<<0,0,-1>>].Bz - emf3_cc[<<0,0,-1>>]
                       + x2Flux[<<0,0,0>>].Bz - emf3_cc[<<0,0,0>>]) \div 2)
      emf_l1 == Upwind(x2Flux[<<0,0,-1>>].d,
                  x2Flux[<<0,0,-1>>].Bz + (-x1Flux[<<0,-1,0>>].By - emf3_cc[<<0,-1,-1>>]),
                  x2Flux[<<0,0,-1>>].Bz + (-x1Flux[<<0,0,0>>].By - emf3_cc[<<0,0,-1>>]),
                  x2Flux[<<0,0,-1>>].Bz
                    + (-x1Flux[<<0,-1,0>>].By - emf3_cc[<<0,-1,-1>>]
                       - x1Flux[<<0,0,0>>].By - emf3_cc[<<0,0,-1>>]) \div 2)
      emf_r1 == Upwind(x2Flux[<<0,0,0>>].d,
                  x2Flux[<<0,0,0>>].Bz + (-x1Flux[<<0,-1,0>>].By - emf3_cc[<<0,-1,0>>]),
                  x2Flux[<<0,0,0>>].Bz + (-x1Flux[<<0,0,0>>].By - emf3_cc[<<0,0,0>>]),
                  x2Flux[<<0,0,0>>].Bz
                    + (-x1Flux[<<0,-1,0>>].By - emf3_cc[<<0,-1,0>>]
                       - x1Flux[<<0,0,0>>].By - emf3_cc[<<0,0,0>>]) \div 2)
  IN [de |-> [l2 |-> emf_l2 + x1Flux[<<0,-1,0>>].By, r2 |-> emf_r2 + x1Flux[<<0,0,0>>].By,
              l1 |-> emf_l1 - x2Flux[<<0,0,-1>>].Bz, r1 |-> emf_r1 - x2Flux[<<0,0,0>>].Bz],
      emf |-> (emf_l1 + emf_r1 + emf_l2 + emf_r2) \div 4]

integrate_emf1_corner(in) ==
  LET x2Flux == in.x2Flux  x3Flux == in.x3Flux  emf1_cc == in.emf_cc
      de1_l3 == Upwind(x2Flux[<<-1,0,0>>].d,
                  x3Flux[<<0,-1,0>>].Bz - emf1_cc[<<-1,-1,0>>],
                  x3Flux[<<0,0,0>>].Bz - emf1_cc[<<-1,0,0>>],
                  (x3Flux[<<0,-1,0>>].Bz - emf1_cc[<<-1,-1,0>>]
                   + x3Flux[<<0,0,0>>].Bz - emf1_cc[<<-1,0,0>>]) \div 2)
      de1_r3 == Upwind(x2Flux[<<0,0,0>>].d,
                  x3Flux[<<0,-1,0>>].Bz - emf1_cc[<<0,-1,0>>],
                  x3Flux[<<0,0,0>>].Bz - emf1_cc[<<0,0,0>>],
                  (x3Flux[<<0,-1,0>>].Bz - emf1_cc[<<0,-1,0>>]
                   + x3Flux[<<0,0,0>>].Bz - emf1_cc[<<0,0,0>>]) \div 2)
      de1_l2 == Upwind(x3Flux[<<0,-1,0>>].d,
                  -x2Flux[<<-1,0,0>>].By - emf1_cc[<<-1,-1,0>>],
                  -x2Flux[<<0,0,0>>].By - emf1_cc[<<0,-1,0>>],
                  (-x2Flux[<<-1,0,0>>].By - emf1_cc[<<-1,-1,0>>]
                   - x2Flux[<<0,0,0>>].By - emf1_cc[<<0,-1,0>>]) \div 2)
      de1_r2 == Upwind(x3Flux[<<0,0,0>>].d,
                  -x2Flux[<<-1,0,0>>].By - emf1_cc[<<-1,0,0>>],
                  -x2Flux[<<0,0,0>>].By - emf1_cc[<<0,0,0>>],
                  (-x2Flux[<<-1,0,0>>].By - emf1_cc[<<-1,0,0>>]
                   - x2Flux[<<0,0,0>>].By - emf1_cc[<<0,0,0>>]) \div 2)
  IN [de |-> [l3 |-> de1_l3, r3 |-> de1_r3, l2 |-> de1_l2, r2 |-> de1_r2],
      emf |-> (x3Flux[<<0,0,0>>].Bz + x3Flux[<<0,-1,0>>].Bz
               - x2Flux[<<0,0,0>>].By - x2Flux[<<-1,0,0>>].By
               + de1_l2 + de1_r2 + de1_l3 + de1_r3) \div 4]

\* the else branch of de2_r1 subtracts emf2_cc[k-1][j][i] twice
integrate_emf2_corner(in) ==
  LET x1Flux == in.x1Flux  x3Flux == in.x3Flux  emf2_cc == in.emf_cc
      de2_l3 == Upwind(x1Flux[<<-1,0,0>>].d,
                  -x3Flux[<<0,0,-1>>].By - emf2_cc[<<-1,0,-1>>],
                  -x3Flux[<<0,0,0>>].By - emf2_cc[<<-1,0,0>>],
                  (-x3Flux[<<0,0,-1>>].By - emf2_cc[<<-1,0,-1>>]
                   - x3Flux[<<0,0,0>>].By - emf2_cc[<<-1,0,0>>]) \div 2)
      de2_r3 == Upwind(x1Flux[<<0,0,0>>].d,
                  -x3Flux[<<0,0,-1>>].By - emf2_cc[<<0,0,-1>>],
                  -x3Flux[<<0,0,0>>].By - emf2_cc[<<0,0,0>>],
                  (-x3Flux[<<0,0,-1>>].By - emf2_cc[<<0,0,-1>>]
                   - x3Flux[<<0,0,0>>].By - emf2_cc[<<0,0,0>>]) \div 2)
      de2_l1 == Upwind(x3Flux[<<0,0,-1>>].d,
                  x1Flux[<<-1,0,0>>].Bz - emf2_cc[<<-1,0,-1>>],
                  x1Flux[<<0,0,0>>].Bz - emf2_cc[<<0,0,-1>>],
                  (x1Flux[<<-1,0,0>>].Bz - emf2_cc[<<-1,0,-1>>]
                   + x1Flux[<<0,0,0>>].Bz - emf2_cc[<<0,0,-1>>]) \div 2)
      de2_r1 == Upwind(x3Flux[<<0,0,0>>].d,
                  x1Flux[<<-1,0,0>>].Bz - emf2_cc[<<-1,0,0>>],
                  x1Flux[<<0,0,0>>].Bz - emf2_cc[<<0,0,0>>],
                  (x1Flux[<<-1,0,0>>].Bz - emf2_cc[<<-1,0,0>>]
                   + x1Flux[<<0,0,0>>].Bz - emf2_cc[<<-1,0,0>>]) \div 2)
  IN [de |-> [l3 |-> de2_l3, r3 |-> de2_r3, l1 |-> de2_l1, r1 |-> de2_r1],
      emf |-> (x1Flux[<<0,0,0>>].Bz + x1Flux[<<-1,0,0>>].Bz
               - x3Flux[<<0,0,0>>].By - x3Flux[<<0,0,-1>>].By
               + de2_l1 + de2_r1 + de2_l3 + de2_r3) \div 4]

integrate_emf3_corner(in) ==
  LET x1Flux == in.x1Flux  x2Flux == in.x2Flux  emf3_cc == in.emf_cc
      de3_l2 == Upwind(x1Flux[<<0,-1,0>>].d,
                  x2Flux[<<0,0,-1>>].Bz - emf3_cc[<<0,-1,-1>>],
                  x2Flux[<<0,0,0>>].Bz - emf3_cc[<<0,-1,0>>],
                  (x2Flux[<<0,0,-1>>].Bz - emf3_cc[<<0,-1,-1>>]
                   + x2Flux[<<0,0,0>>].Bz - emf3_cc[<<0,-1,0>>]) \div 2)
      de3_r2 == Upwind(x1Flux[<<0,0,0>>].d,
                  x2Flux[<<0,0,-1>>].Bz - emf3_cc[<<0,0,-1>>],
                  x2Flux[<<0,0,0>>].Bz - emf3_cc[<<0,0,0>>],
                  (x2Flux[<<0,0,-1>>].Bz - emf3_cc[<<0,0,-1>>]
                   + x2Flux[<<0,0,0>>].Bz - emf3_cc[<<0,0,0>>]) \div 2)
      de3_l1 == Upwind(x2Flux[<<0,0,-1>>].d,
                  -x1Flux[<<0,-1,0>>].By - emf3_cc[<<0,-1,-1>>],
                  -x1Flux[<<0,0,0>>].By - emf3_cc[<<0,0,-1>>],
                  (-x1Flux[<<0,-1,0>>].By - emf3_cc[<<0,-1,-1>>]
                   - x1Flux[<<0,0,0>>].By - emf3_cc[<<0,0,-1>>]) \div 2)
      de3_r1 == Upwind(x2Flux[<<0,0,0>>].d,
                  -x1Flux[<<0,-1,0>>].By - emf3_cc[<<0,-1,0>>],
                  -x1Flux[<<0,0,0>>].By - emf3_cc[<<0,0,0>>],
                  (-x1Flux[<<0,-1,0>>].By - emf3_cc[<<0,-1,0>>]
                   - x1Flux[<<0,0,0>>].By - emf3_cc[<<0,0,0>>]) \div 2)
  IN [de |-> [l2 |-> de3_l2, r2 |-> de3_r2, l1 |-> de3_l1, r1 |-> de3_r1],
      emf |-> (x2Flux[<<0,0,-1>>].Bz + x2Flux[<<0,0,0>>].Bz
               - x1Flux[<<0,-1,0>>].By - x1Flux[<<0,0,0>>].By
               + de3_l1 + de3_r1 + de3_l2 + de3_r2) \div 4]

\* the corner-EMF routines: the integrator they belong to and the edge
\* direction of the EMF they compute
CornerRoutines == { <<2, 3>>, <<3, 1>>, <<3, 2>>, <<3, 3>> }

CornerEmf(fn, in) ==
  CASE fn = <<2, 3>> -> integrate_emf3_corner_2d(in)
    [] fn = <<3, 1>> -> integrate_emf1_corner(in)
    [] fn = <<3, 2>> -> integrate_emf2_corner(in)
    [] fn = <<3, 3>> -> integrate_emf3_corner(in)

\* the values a kernel is run on: multiples of 8 that differ from one array
\* element to the next, and mass fluxes of either sign and zero
Kv(seed, arr, o, comp) ==
  8 * ((seed * 3 + arr * 17 + comp * 13 - 5 * o[1] - 7 * o[2] - 11 * o[3]) % 29)

MassFluxes == {-8, 0, 8}

\* the fluxes of the n-sweep around an edge along a: their mass flux is
\* sg[<<n, s>>] on the face at offset s along the other transverse direction
CornerFlux(a, seed, sg, n) ==
  [o \in Offsets |->
     [d  |-> IF n = a THEN 8 ELSE sg[<<n, o[4 - (6 - a - n)]>>],
      By |-> Kv(seed, n, o, 1),
      Bz |-> Kv(seed, n, o, 2)]]

CornerInputs(a) ==
  { [x1Flux |-> CornerFlux(a, seed, sg, 1),
     x2Flux |-> CornerFlux(a, seed, sg, 2),
     x3Flux |-> CornerFlux(a, seed, sg, 3),
     emf_cc |-> [o \in Offsets |-> Kv(seed, 0, o, 0)]] :
      seed \in Seeds, sg \in [(Dirs \ {a}) \X {-1, 0} -> MassFluxes] }

InitEmf ==
  /\ GridIdle
  /\ scratch = None
  /\ \E fn \in CornerRoutines : \E in \in CornerInputs(fn[2]) :
       kern = [fn |-> fn, in |-> in, out |-> None]

RunCornerEmf ==
  /\ kern.out = None
  /\ kern' = [kern EXCEPT !.out = CornerEmf(kern.fn, kern.in)]
  /\ UNCHANGED <<scratch, GridVars>>

NextEmf == RunCornerEmf

SpecEmf == InitEmf /\ [][NextEmf]_vars

\* the array of sweep m fluxes, and the EMF along a that a flux of sweep m
\* is: the flux of By of the sweep after a is -E_a, the flux of Bz of the
\* sweep before a is +E_a
SweepFlux(in, m) == CASE m = 1 -> in.x1Flux [] m = 2 -> in.x2Flux [] m = 3 -> in.x3Flux

FaceEmf(in, a, m, o) ==
  IF m = NextDir(a) THEN -SweepFlux(in, m)[o].By ELSE SweepFlux(in, m)[o].Bz

\* the derivative correction along m at offset s: the difference on the
\* side t (-1 lower, 0 higher) of the transverse face n that decides it
OneSided(in, a, m, s, t) ==
  LET n == 6 - a - m
      o == [p \in 1..3 |-> Shift(m, s)[p] + Shift(n, t)[p]]
  IN FaceEmf(in, a, m, Shift(n, t)) - in.emf_cc[o]

Decider(in, a, m, s) == SweepFlux(in, 6 - a - m)[Shift(m, s)].d

Correction(out, m, s) ==
  LET de == out.de
  IN CASE m = 1 /\ s = -1 -> de.l1 [] m = 1 /\ s = 0 -> de.r1
       [] m = 2 /\ s = -1 -> de.l2 [] m = 2 /\ s = 0 -> de.r2
       [] m = 3 /\ s = -1 -> de.l3 [] m = 3 /\ s = 0 -> de.r3

CornerDone == kern # None /\ kern.fn \in CornerRoutines /\ kern.out # None

\* C22: in every corner-EMF routine each of the four derivative corrections
\* is the lower-side difference for a positive mass flux through the
\* transverse face, the higher-side difference for a negative one, and the
\* arithmetic mean of the two for a mass flux of exactly zero
C22_CornersUpwinded ==
  CornerDone =>
    LET a == kern.fn[2] IN
    \A m \in Dirs \ {a} : \A s \in {-1, 0} :
      LET d  == Decider(kern.in, a, m, s)
          lo == OneSided(kern.in, a, m, s, -1)
          hi == OneSided(kern.in, a, m, s, 0)
          de == Correction(kern.out, m, s)
      IN /\ d > 0 => de = lo
         /\ d < 0 => de = hi
         /\ d = 0 => 2 * de = lo + hi

\* the same, leaving out the zero mass flux through the x3-face in emf2
C22_ExceptZeroInEmf2 ==
  CornerDone =>
    LET a == kern.fn[2] IN
    \A m \in Dirs \ {a} : \A s \in {-1, 0} :
      LET d  == Decider(kern.in, a, m, s)
          lo == OneSided(kern.in, a, m, s, -1)
          hi == OneSided(kern.in, a, m, s, 0)
          de == Correction(kern.out, m, s)
      IN /\ d > 0 => de = lo
         /\ d < 0 => de = hi
         /\ (d = 0 /\ ~(kern.fn = <<3, 2>> /\ m = 1 /\ s = 0)) => 2 * de = lo + hi

(***************************************************************************)
(* The places where a flux difference is applied to a cell or to a face    *)
(* state.  A place is the sweep n the flux comes from, what it is applied  *)
(* to (0: a cell of the Grid or a half-step value of that cell; f: the     *)
(* left or right state on an x_f-face) and, component by component, the    *)
(* component of the flux that is taken.                                    *)
(***************************************************************************)
LocalComps == {"d", "Mx", "My", "Mz", "E", "By", "Bz"}
GlobalComps == {"d", "M1", "M2", "M3", "E", "B1c", "B2c", "B3c"}

\* variant: every sweep loads its 1D state the way the x1-sweep does
FaceLoad_x1(f) ==
  [d |-> "d", Mx |-> "M1", My |-> "M2", Mz |-> "M3", E |-> "E", By |-> "B2c", Bz |-> "B3c"]

\* Steps 1a, 2a, 3a: U1d[.].Mx = pGrid->U[k][j][i].M?, ...
FaceLoad(f) ==
  CASE f = 1 -> [d |-> "d", Mx |-> "M1", My |-> "M2", Mz |-> "M3", E |-> "E",
                 By |-> "B2c", Bz |-> "B3c"]
    [] f = 2 -> [d |-> "d", Mx |-> "M2", My |-> "M3", Mz |-> "M1", E |-> "E",
                 By |-> "B3c", Bz |-> "B1c"]
    [] f = 3 -> [d |-> "d", Mx |-> "M3", My |-> "M1", Mz |-> "M2", E |-> "E",
                 By |-> "B1c", Bz |-> "B2c"]

Site(fn, name, n, to, assign) ==
  [fn |-> fn, step |-> name, n |-> n, to |-> to, assign |-> assign]

\* integrate_2d
Sites_2d ==
  { Site(2, "5a", 2, 1, [d |-> "d", Mx |-> "Mz", My |-> "Mx", Mz |-> "My", E |-> "E", Bz |-> "By"]),
    Site(2, "6a", 1, 2, [d |-> "d", Mx |-> "My", My |-> "Mz", Mz |-> "Mx", E |-> "E", By |-> "Bz"]),
    Site(2, "7", 1, 0, [d |-> "d", M1 |-> "Mx", M2 |-> "My"]),
    Site(2, "7", 2, 0, [d |-> "d", M1 |-> "Mz", M2 |-> "Mx"]),
    Site(2, "11a", 1, 0, [d |-> "d", M1 |-> "Mx", M2 |-> "My", M3 |-> "Mz", E |-> "E",
                          B2c |-> "By", B3c |-> "Bz"]),
    Site(2, "11b", 2, 0, [d |-> "d", M1 |-> "Mz", M2 |-> "Mx", M3 |-> "My", E |-> "E",
                          B3c |-> "By", B1c |-> "Bz"]) }

\* integrate_3d_ctu
Sites_3d ==
  { Site(3, "6a", 2, 1, [d |-> "d", Mx |-> "Mz", My |-> "Mx", Mz |-> "My", E |-> "E"]),
    Site(3, "6b", 3, 1, [d |-> "d", Mx |-> "My", My |-> "Mz", Mz |-> "Mx", E |-> "E"]),
    Site(3, "7a", 1, 2, [d |-> "d", Mx |-> "My", My |-> "Mz", Mz |-> "Mx", E |-> "E"]),
    Site(3, "7b", 3, 2, [d |-> "d", Mx |-> "Mz", My |-> "Mx", Mz |-> "My", E |-> "E"]),
    Site(3, "8a", 1, 3, [d |-> "d", Mx |-> "Mz", My |-> "Mx", Mz |-> "My", E |-> "E"]),
    Site(3, "8b", 2, 3, [d |-> "d", Mx |-> "My", My |-> "Mz", Mz |-> "Mx", E |-> "E"]),
    Site(3, "9", 1, 0, [d |-> "d", M1 |-> "Mx", M2 |-> "My", M3 |-> "Mz"]),
    Site(3, "9", 2, 0, [d |-> "d", M1 |-> "Mz", M2 |-> "Mx", M3 |-> "My"]),
    Site(3, "9", 3, 0, [d |-> "d", M1 |-> "My", M2 |-> "Mz", M3 |-> "Mx"]),
    Site(3, "12", 1, 0, [M1 |-> "Mx", M2 |-> "My"]),
    Site(3, "12", 2, 0, [M1 |-> "Mz", M2 |-> "Mx"]),
    Site(3, "12", 3, 0, [M1 |-> "My", M2 |-> "Mz"]),
    Site(3, "13a", 1, 0, [d |-> "d", M1 |-> "Mx", M2 |-> "My", M3 |-> "Mz", E |-> "E",
                          B2c |-> "By", B3c |-> "Bz"]),
    Site(3, "13b", 2, 0, [d |-> "d", M1 |-> "Mz", M2 |-> "Mx", M3 |-> "My", E |-> "E",
                          B3c |-> "By", B1c |-> "Bz"]),
    Site(3, "13c", 3, 0, [d |-> "d", M1 |-> "My", M2 |-> "Mz", M3 |-> "Mx", E |-> "E",
                          B1c |-> "By", B2c |-> "Bz"]) }

FluxSites == Sites_2d \cup Sites_3d

\* what the flux is applied to, taken from the cell with values u: the cell
\* itself, or the state a sweep along to builds from it
Target(to, u) ==
  IF to = 0 THEN u ELSE [c \in LocalComps |-> u[FaceLoad(to)[c]]]

\* X.c -= q*(x?Flux[+1].f - x?Flux[].f) for every pair c, f of the place
ApplyFlux(site, tgt, q, dF) ==
  [c \in DOMAIN tgt |->
     IF c \in DOMAIN site.assign THEN tgt[c] - q * dF[site.assign[c]] ELSE tgt[c]]

\* the values of a cell and the flux differences: all different, none zero
CellValue(seed) ==
  [d |-> 100 * seed + 1, M1 |-> 100 * seed + 2, M2 |-> 100 * seed + 3, M3 |-> 100 * seed + 4,
   E |-> 100 * seed + 5, B1c |-> 100 * seed + 6, B2c |-> 100 * seed + 7, B3c |-> 100 * seed + 8]

FluxDiff(seed) ==
  [d |-> 10 + seed, Mx |-> 20 + seed, My |-> 30 + seed, Mz |-> 40 + seed,
   E |-> 50 + seed, By |-> 60 + seed, Bz |-> 70 + seed]

InitRot ==
  /\ GridIdle
  /\ scratch = None
  /\ \E site \in FluxSites : \E seed \in Seeds : \E sf \in Seeds : \E q \in {1, 2} :
       kern = [fn |-> "flux", site |-> site, u |-> CellValue(seed), dF |-> FluxDiff(sf),
               q |-> q, out |-> None]

RunApplyFlux ==
  /\ kern.out = None
  /\ kern' = [kern EXCEPT !.out = ApplyFlux(kern.site, Target(kern.site.to, kern.u),
                                            kern.q, kern.dF)]
  /\ UNCHANGED <<scratch, GridVars>>

NextRot == RunApplyFlux

SpecRot == InitRot /\ [][NextRot]_vars

\* the global quantity that component c of a flux or of a state of the sweep
\* along n stands for: (M1,M2,M3), (B2c,B3c) for x1; (M2,M3,M1), (B3c,B1c)
\* for x2; (M3,M1,M2), (B1c,B2c) for x3
Rotation(n, c) ==
  LET M == <<"M1", "M2", "M3">>  B == <<"B1c", "B2c", "B3c">>
  IN CASE c = "Mx" -> M[n] [] c = "My" -> M[NextDir(n)] [] c = "Mz" -> M[PrevDir(n)]
       [] c = "By" -> B[NextDir(n)] [] c = "Bz" -> B[PrevDir(n)]
       [] OTHER -> c

FluxDone == kern # None /\ kern.fn = "flux" /\ kern.out # None

\* C23: wherever a flux of a sweep is applied to a cell or to a face state
\* of another sweep, each component of the state holds the global quantity
\* of its sweep's rotation and is changed by the flux component that stands
\* for the same global quantity
C23_FluxRotation ==
  FluxDone =>
    LET site == kern.site IN
    \A c \in DOMAIN kern.out :
      LET Q == IF site.to = 0 THEN c ELSE Rotation(site.to, c)
      IN IF c \in DOMAIN site.assign
         THEN \E f \in LocalComps :
                /\ Rotation(site.n, f) = Q
                /\ kern.out[c] = kern.u[Q] - kern.q * kern.dF[f]
         ELSE kern.out[c] = kern.u[Q]

C23_Witness ==
  /\ FluxDone
  /\ kern.site.to = 3 /\ kern.site.n = 2
  /\ kern.out.Mx = kern.u.M3 - kern.q * kern.dF.My
  /\ kern.out.Mz = kern.u.M2 - kern.q * kern.dF.Mx
  /\ kern.out.By = kern.u.B1c

(***************************************************************************)
(* The loops of integrate_3d_ctu that call the static gravitational        *)
(* potential, with a potential enrolled.  x1, x2, x3 are locals of the     *)
(* function: a loop that does not call cc_pos finds in them what the last  *)
(* call left.  Each loop is run whole; what it did is kept per loop index  *)
(* c = <<i, j, k>>: the x1, x2, x3 the potential calls were built from     *)
(* and, in Steps 6d to 8d, what was taken off My and Mz of the right and   *)
(* the left state.                                                         *)
(***************************************************************************)
GravGrids ==
  { [lo |-> <<nghost, nghost, nghost>>,
     hi |-> <<nghost + n[1] - 1, nghost + n[2] - 1, nghost + n[3] - 1>>] :
       n \in {2, 3} \X {2, 3} \X {2, 3} }

\* the loop indices c with lo[t] + a[t] <= c[t] <= hi[t] + b[t]
LoopBox(G, a, b) ==
  ((G.lo[1] + a[1])..(G.hi[1] + b[1])) \X ((G.lo[2] + a[2])..(G.hi[2] + b[2]))
    \X ((G.lo[3] + a[3])..(G.hi[3] + b[3]))

\* the last index of a loop nest whose loops all count upwards
LastOf(G, b) == <<G.hi[1] + b[1], G.hi[2] + b[2], G.hi[3] + b[3]>>

\* pGrid->U[k][j][i].d
Density(seed, c) == 2 * (1 + ((seed * (c[1] + 3 * c[2] + 5 * c[3])) % 13))

\* phir - phil: the potential at x + 0.5*dx_t less the one at x - 0.5*dx_t
PhiDiff(x, t) ==
  StaticGravPot(At(x, t, x[t] + 1)) - StaticGravPot(At(x, t, x[t] - 1))

\* q1, q2, q3 = 0.5*dtodx applied to v
hdtodx(t, v) == (dtodx(t) * v) \div 2

\* Steps 1d, 2d, 3d: cc_pos, then phicr, phicl, phifc
Step1d(G, seed, x) ==
  [x  |-> cc_pos(LastOf(G, <<2, 2, 2>>)),
   at |-> [c \in LoopBox(G, <<-1, -2, -2>>, <<2, 2, 2>>) |-> [x |-> cc_pos(c)]]]

Step2d(G, seed, x) ==
  [x  |-> cc_pos(At(LastOf(G, <<2, 2, 2>>), 3, G.lo[3])),
   at |-> [c \in LoopBox(G, <<-2, -1, -2>>, <<2, 2, 2>>) |->
             [x |-> cc_pos(At(c, 3, G.lo[3]))]]]

Step3d(G, seed, x) ==
  [x  |-> cc_pos(LastOf(G, <<2, 2, 2>>)),
   at |-> [c \in LoopBox(G, <<-2, -2, -1>>, <<2, 2, 2>>) |-> [x |-> cc_pos(c)]]]

\* Step 6d: no cc_pos in the loop
Step6d(G, seed, x) ==
  [x  |-> x,
   at |-> [c \in LoopBox(G, <<-1, -1, -1>>, <<2, 1, 1>>) |->
             [x  |-> x,
              Ur |-> [My |-> hdtodx(2, PhiDiff(x, 2) * Density(seed, c)),
                      Mz |-> hdtodx(3, PhiDiff(x, 3) * Density(seed, c))],
              Ul |-> [My |-> hdtodx(2, PhiDiff(At(x, 1, x[1] - 2), 2)
                                         * Density(seed, Down(c, 1))),
                      Mz |-> hdtodx(3, PhiDiff(At(x, 1, x[1] - 2), 3)
                                         * Density(seed, Down(c, 1)))]]]]

\* Step 7d: the left state takes U[ks][j-1][i].d for Mz and U[k][j][i].d for My
Step7d(G, seed, x) ==
  [x  |-> cc_pos(LastOf(G, <<1, 2, 1>>)),
   at |-> [c \in LoopBox(G, <<-1, -1, -1>>, <<1, 2, 1>>) |->
             LET xc == cc_pos(c) IN
             [x  |-> xc,
              Ur |-> [Mz |-> hdtodx(1, PhiDiff(xc, 1) * Density(seed, c)),
                      My |-> hdtodx(3, PhiDiff(xc, 3) * Density(seed, c))],
              Ul |-> [Mz |-> hdtodx(1, PhiDiff(At(xc, 2, xc[2] - 2), 1)
                                         * Density(seed, At(Down(c, 2), 3, G.lo[3]))),
                      My |-> hdtodx(3, PhiDiff(At(xc, 2, xc[2] - 2), 3)
                                         * Density(seed, c))]]]]

\* Step 8d: phir and phil are computed and not used for My and Mz
Step8d(G, seed, x) ==
  [x  |-> cc_pos(LastOf(G, <<1, 1, 2>>)),
   at |-> [c \in LoopBox(G, <<-1, -1, -1>>, <<1, 1, 2>>) |->
             [x  |-> cc_pos(c),
              Ur |-> [My |-> hdtodx(1, Density(seed, c)),
                      Mz |-> hdtodx(2, Density(seed, c))],
              Ul |-> [My |-> hdtodx(1, Density(seed, Down(c, 3))),
                      Mz |-> hdtodx(2, Density(seed, Down(c, 3)))]]]]

\* Step 9 (half-step momenta) and Step 12 (full-step source)
Step9(G, seed, x) ==
  [x  |-> cc_pos(LastOf(G, <<1, 1, 1>>)),
   at |-> [c \in LoopBox(G, <<-1, -1, -1>>, <<1, 1, 1>>) |-> [x |-> cc_pos(c)]]]

Step12_grav(G, seed, x) ==
  [x  |-> cc_pos(LastOf(G, <<0, 0, 0>>)),
   at |-> [c \in LoopBox(G, <<0, 0, 0>>, <<0, 0, 0>>) |-> [x |-> cc_pos(c)]]]

GravSteps == <<"1d", "2d", "3d", "6d", "7d", "8d", "9", "12">>

InitGrav ==
  /\ GridIdle
  /\ scratch = None
  /\ \E G \in GravGrids : \E seed \in Seeds :
       kern = [fn |-> "grav", G |-> G, seed |-> seed, x |-> None, done |-> 0, at |-> <<>>]

\* the locals and the record of the loop after step n has run
GravAfter(n, res) == [kern EXCEPT !.x = res.x, !.done = n, !.at = res.at]

RunStep1d ==
  /\ kern.done = 0
  /\ kern' = GravAfter(1, Step1d(kern.G, kern.seed, kern.x))
  /\ UNCHANGED <<scratch, GridVars>>

RunStep2d ==
  /\ kern.done = 1
  /\ kern' = GravAfter(2, Step2d(kern.G, kern.seed, kern.x))
  /\ UNCHANGED <<scratch, GridVars>>

RunStep3d ==
  /\ kern.done = 2
  /\ kern' = GravAfter(3, Step3d(kern.G, kern.seed, kern.x))
  /\ UNCHANGED <<scratch, GridVars>>

RunStep6d ==
  /\ kern.done = 3
  /\ kern' = GravAfter(4, Step6d(kern.G, kern.seed, kern.x))
  /\ UNCHANGED <<scratch, GridVars>>

RunStep7d ==
  /\ kern.done = 4
  /\ kern' = GravAfter(5, Step7d(kern.G, kern.seed, kern.x))
  /\ UNCHANGED <<scratch, GridVars>>

RunStep8d ==
  /\ kern.done = 5
  /\ kern' = GravAfter(6, Step8d(kern.G, kern.seed, kern.x))
  /\ UNCHANGED <<scratch, GridVars>>

RunStep9 ==
  /\ kern.done = 6
  /\ kern' = GravAfter(7, Step9(kern.G, kern.seed, kern.x))
  /\ UNCHANGED <<scratch, GridVars>>

RunStep12 ==
  /\ kern.done = 7
  /\ kern' = GravAfter(8, Step12_grav(kern.G, kern.seed, kern.x))
  /\ UNCHANGED <<scratch, GridVars>>

NextGrav ==
  \/ RunStep1d \/ RunStep2d \/ RunStep3d \/ RunStep6d
  \/ RunStep7d \/ RunStep8d \/ RunStep9 \/ RunStep12

SpecGrav == InitGrav /\ [][NextGrav]_vars

GravDone(names) ==
  kern # None /\ kern.fn = "grav" /\ kern.done > 0 /\ GravSteps[kern.done] \in names

\* the face direction of Steps 6d, 7d, 8d
FaceOf(done) == done - 3

\* the component of a state on an x_f-face that holds the momentum along t
MomentumAlong(f, t) == CHOOSE c \in {"Mx", "My", "Mz"} : Rotation(f, c) = Mn(t)

\* C24: on x1-, x2- and x3-faces the momentum along each transverse
\* direction t of the right (left) state is reduced by dt/(2*dx_t) times the
\* potential difference across the cell along t times the density of the
\* cell at the loop index (of its lower neighbour along the face normal)
C24_TransverseGravity ==
  GravDone({"6d", "7d", "8d"}) =>
    LET f == FaceOf(kern.done) IN
    \A c \in DOMAIN kern.at : \A t \in Dirs \ {f} :
      /\ kern.at[c].Ur[MomentumAlong(f, t)]
           = hdtodx(t, PhiDiff(cc_pos(c), t) * Density(kern.seed, c))
      /\ kern.at[c].Ul[MomentumAlong(f, t)]
           = hdtodx(t, PhiDiff(cc_pos(Down(c, f)), t) * Density(kern.seed, Down(c, f)))

\* C25: every evaluation of the potential is built from the cell-center
\* coordinates of the cell the enclosing loops index
C25_CoordinatesOfLoopCell ==
  GravDone({"1d", "2d", "3d", "6d", "7d", "8d", "9", "12"}) =>
    \A c \in DOMAIN kern.at : kern.at[c].x = cc_pos(c)

\* where the two claims do hold: the right states of Step 7d, and the
\* coordinates of every loop but Steps 2d and 6d
GravHolds ==
  /\ GravDone({"7d"}) =>
       \A c \in DOMAIN kern.at : \A t \in {1, 3} :
         kern.at[c].Ur[MomentumAlong(2, t)]
           = hdtodx(t, PhiDiff(cc_pos(c), t) * Density(kern.seed, c))
  /\ GravDone({"1d", "3d", "7d", "8d", "9", "12"}) =>
       \A c \in DOMAIN kern.at : kern.at[c].x = cc_pos(c)

(***************************************************************************)
(* The H-correction.  etah is a variable of the flux solver that the       *)
(* integrators set before the final flux of each face and that every flux  *)
(* call reads; eta1, eta2, eta3 are scratch arrays that live from one step *)
(* to the next.  An entry of an eta array is <<value, step that wrote it>>. *)
(* The Grid is carried as the number gs of its state.                      *)
(***************************************************************************)
HGrids(dim) ==
  IF dim = 3 THEN GravGrids
  ELSE { [lo |-> <<nghost, nghost, 0>>, hi |-> <<nghost + n[1] - 1, nghost + n[2] - 1, 0>>] :
           n \in {2, 3} \X {2, 3} }

\* the indices of a scratch array
ArrayBox(dim, G) ==
  LoopBox(G, <<-nghost, -nghost, IF dim = 3 THEN -nghost ELSE 0>>,
             <<nghost, nghost, IF dim = 3 THEN nghost ELSE 0>>)

Sh(c, di, dj, dk) == <<c[1] + di, c[2] + dj, c[3] + dk>>

\* etah as the flux solver defines it, before any integrator has set it
EtahInitial == 0
NotWritten == <<-1, 0>>

\* variant: eta is computed on the faces of the cells one around the active ones
EtaRange_near(dim, G, t) ==
  LoopBox(G, <<-1, -1, IF dim = 3 THEN -1 ELSE 0>>, <<1, 1, IF dim = 3 THEN 1 ELSE 0>>)

\* the loops of Step 8a (2D) and Step 10a (3D) that compute eta_t
EtaRange(dim, G, t) ==
  IF dim = 2
  THEN CASE t = 1 -> LoopBox(G, <<-1, -1, 0>>, <<2, 1, 0>>)
         [] t = 2 -> LoopBox(G, <<-1, -1, 0>>, <<1, 2, 0>>)
         [] t = 3 -> {}
  ELSE CASE t = 1 -> LoopBox(G, <<-1, -1, -1>>, <<2, 1, 1>>)
         [] t = 2 -> LoopBox(G, <<-1, -1, -1>>, <<1, 2, 1>>)
         [] t = 3 -> LoopBox(G, <<-1, -1, -1>>, <<1, 1, 2>>)

\* 0.5*(fabs(ur - ul) + fabs(cfr - cfl)) of the corrected states on a face,
\* which come from the Grid and from the first-pass fluxes
EtaValue(gs, pred, t, c) == 1 + ((gs + 2 * pred + 3 * t + 5 * c[1] + 7 * c[2] + 11 * c[3]) % 6)

EtaArrays(dim, G, gs, pred, old, n) ==
  [t \in Dirs |->
     [c \in ArrayBox(dim, G) |->
        IF c \in EtaRange(dim, G, t) THEN <<EtaValue(gs, pred, t, c), n>> ELSE old[t][c]]]

\* the loops of the final fluxes: Steps 8b, 8c (2D) and 10b, 10c, 10d (3D)
FinalRange(dim, G, f) ==
  IF dim = 2
  THEN CASE f = 1 -> LoopBox(G, <<0, -1, 0>>, <<1, 1, 0>>)
         [] f = 2 -> LoopBox(G, <<-1, 0, 0>>, <<1, 1, 0>>)
  ELSE CASE f = 1 -> LoopBox(G, <<0, -1, -1>>, <<1, 1, 1>>)
         [] f = 2 -> LoopBox(G, <<-1, 0, -1>>, <<1, 1, 1>>)
         [] f = 3 -> LoopBox(G, <<-1, -1, 0>>, <<1, 1, 1>>)

FinalLast(dim, G, f) == LastOf(G, <<1, 1, IF dim = 3 THEN 1 ELSE 0>>)

\* the entries etah = MAX(...) reads for the face c of direction f
EtaReads(dim, f, c) ==
  IF dim = 2
  THEN CASE f = 1 -> { <<2, Sh(c, -1, 0, 0)>>, <<2, c>>, <<2, Sh(c, -1, 1, 0)>>,
                       <<2, Sh(c, 0, 1, 0)>>, <<1, c>> }
         [] f = 2 -> { <<1, Sh(c, 0, -1, 0)>>, <<1, c>>, <<1, Sh(c, 1, -1, 0)>>,
                       <<1, Sh(c, 1, 0, 0)>>, <<2, c>> }
  ELSE CASE f = 1 -> { <<2, Sh(c, -1, 0, 0)>>, <<2, c>>, <<2, Sh(c, -1, 1, 0)>>,
                       <<2, Sh(c, 0, 1, 0)>>, <<3, Sh(c, -1, 0, 0)>>, <<3, c>>,
                       <<3, Sh(c, -1, 0, 1)>>, <<3, Sh(c, 0, 0, 1)>>, <<1, c>> }
         [] f = 2 -> { <<1, Sh(c, 0, -1, 0)>>, <<1, c>>, <<1, Sh(c, 1, -1, 0)>>,
                       <<1, Sh(c, 1, 0, 0)>>, <<3, Sh(c, 0, -1, 0)>>, <<3, c>>,
                       <<3, Sh(c, 0, -1, 1)>>, <<3, Sh(c, 0, 0, 1)>>, <<2, c>> }
         [] f = 3 -> { <<1, Sh(c, 0, 0, -1)>>, <<1, c>>, <<1, Sh(c, 1, 0, -1)>>,
                       <<1, Sh(c, 1, 0, 0)>>, <<2, Sh(c, 0, 0, -1)>>, <<2, c>>,
                       <<2, Sh(c, 0, 1, -1)>>, <<2, Sh(c, 0, 1, 0)>>, <<3, c>> }

\* etah at the GET_FLUXES call of every face of the loop
EtahAt(dim, G, eta, f) ==
  [c \in FinalRange(dim, G, f) |-> MaxOf({ eta[p[1]][p[2]][1] : p \in EtaReads(dim, f, c) })]

\* the Grid after the step: it is made of the fluxes, which the solver
\* computes from the states and from etah, in the first pass (etah as the
\* step found it) and in the final pass (etah of each face)
NextGridState(gs, pred, finals) ==
  (3 * gs + 5 * pred + 7 * SumOver(finals, DOMAIN finals) + 1) % 101

\* one whole step from the Grid state gs with etah as it is found
HStep(dim, G, gs, etah0, old, n) ==
  LET eta == EtaArrays(dim, G, gs, etah0, old, n)
      last == IF dim = 3 THEN 3 ELSE 2
      at == [f \in 1..last |-> EtahAt(dim, G, eta, f)]
  IN [gs |-> NextGridState(gs, etah0, [f \in 1..last |-> at[f][FinalLast(dim, G, f)]]),
      etah |-> at[last][FinalLast(dim, G, last)]]

InitHcorr ==
  /\ GridIdle
  /\ scratch = None
  /\ \E dim \in {2, 3} : \E G \in HGrids(dim) : \E gs \in Seeds :
       kern = [fn |-> "hcorr", dim |-> dim, G |-> G, gs |-> gs, from |-> gs, etah |-> EtahInitial,
               pred |-> EtahInitial, step |-> 1, pc |-> "predict",
               eta |-> [t \in Dirs |-> [c \in ArrayBox(dim, G) |-> NotWritten]],
               at |-> <<<<>>, <<>>, <<>>>>, twin |-> None]

HKeep == UNCHANGED <<scratch, GridVars>>

\* Steps 1e, 2e, 3e: the first-pass GET_FLUXES calls
HPredict ==
  /\ kern.fn = "hcorr" /\ kern.pc = "predict" /\ kern.step <= MaxCalls
  /\ kern' = [kern EXCEPT !.pred = kern.etah, !.pc = "eta", !.from = kern.gs]
  /\ HKeep

\* Step 8a, Step 10a
HEta ==
  /\ kern.fn = "hcorr" /\ kern.pc = "eta"
  /\ kern' = [kern EXCEPT !.eta = EtaArrays(kern.dim, kern.G, kern.gs, kern.pred,
                                            kern.eta, kern.step),
                          !.pc = "flux1"]
  /\ HKeep

HFinal(f, then) ==
  LET at == EtahAt(kern.dim, kern.G, kern.eta, f)
  IN [kern EXCEPT !.at[f] = at, !.etah = at[FinalLast(kern.dim, kern.G, f)], !.pc = then]

\* Step 8b, Step 10b
HFlux1 ==
  /\ kern.fn = "hcorr" /\ kern.pc = "flux1"
  /\ kern' = HFinal(1, "flux2")
  /\ HKeep

\* Step 8c, Step 10c
HFlux2 ==
  /\ kern.fn = "hcorr" /\ kern.pc = "flux2"
  /\ kern' = HFinal(2, IF kern.dim = 3 THEN "flux3" ELSE "update")
  /\ HKeep

\* Step 10d
HFlux3 ==
  /\ kern.fn = "hcorr" /\ kern.pc = "flux3"
  /\ kern' = HFinal(3, "update")
  /\ HKeep

\* the rest of the step; twin is the Grid that a run which starts from the
\* same Grid state with the solver's own etah has after its step
HUpdate ==
  /\ kern.fn = "hcorr" /\ kern.pc = "update"
  /\ LET last == IF kern.dim = 3 THEN 3 ELSE 2
     IN kern' = [kern EXCEPT
          !.gs = NextGridState(kern.gs, kern.pred,
                               [f \in 1..last |-> kern.at[f][FinalLast(kern.dim, kern.G, f)]]),
          !.twin = HStep(kern.dim, kern.G, kern.gs, EtahInitial, kern.eta, kern.step).gs,
          !.at = <<<<>>, <<>>, <<>>>>, !.step = kern.step + 1, !.pc = "predict"]
  /\ HKeep

NextHcorr == HPredict \/ HEta \/ HFlux1 \/ HFlux2 \/ HFlux3 \/ HUpdate

SpecHcorr == InitHcorr /\ [][NextHcorr]_vars

HDone == kern # None /\ kern.fn = "hcorr"

\* the faces of the other directions that share an edge with the face c of
\* direction f: those of the two cells the face lies between
SharedEdge(dim, f, c) ==
  { <<t, x>> \in ({1, 2} \cup (IF dim = 3 THEN {3} ELSE {})) \X ArrayBox(dim, kern.G) :
      /\ t # f
      /\ \E cell \in {Down(c, f), c} : x \in {cell, Up(cell, t)} }

\* C26: etah at each final flux is the maximum of the face's own eta and of
\* the etas of the faces of the other directions that share an edge with it
\* (four in 2D, eight in 3D), all of them computed in the current step
C26_EtahIsStencilMax ==
  HDone =>
    \A f \in 1..3 : \A c \in DOMAIN kern.at[f] :
      LET faces == SharedEdge(kern.dim, f, c) \cup {<<f, c>>}
      IN /\ Cardinality(faces) = (IF kern.dim = 3 THEN 9 ELSE 5)
         /\ \A p \in faces : kern.eta[p[1]][p[2]][2] = kern.step
         /\ kern.at[f][c] = MaxOf({ kern.eta[p[1]][p[2]][1] : p \in faces })

C26_Witness ==
  /\ HDone /\ kern.dim = 3 /\ kern.step = 2 /\ kern.pc = "update"
  /\ \E c \in DOMAIN kern.at[3] :
       /\ kern.at[3][c] > kern.eta[3][c][1]
       /\ kern.at[3][c] = kern.eta[2][Sh(c, 0, 1, -1)][1]

\* C27: the first-pass flux calls of a step see the solver's own etah, not
\* one left by the final fluxes of the step before, so the Grid after a step
\* is the one any run has that starts the step from the same Grid state
C27_StepDependsOnGridOnly ==
  HDone =>
    /\ kern.pc # "predict" => kern.pred = EtahInitial
    /\ (kern.step > 1 /\ kern.pc = "predict") => kern.gs = kern.twin

\* the first step of a run does depend on the Grid only
C27_FirstStep ==
  (HDone /\ kern.step <= 2) =>
    /\ (kern.pc # "predict" /\ kern.step = 1) => kern.pred = EtahInitial
    /\ (kern.step = 2 /\ kern.pc = "predict") => kern.gs = kern.twin

(***************************************************************************)
(* The scratch arrays of an integrator: file-scope pointers, NULL when the *)
(* program starts.  A pointer is "NULL", "live" (it refers to an array     *)
(* that is allocated) or "freed" (it refers to an array that was freed).   *)
(* pot tells whether a static potential is enrolled (StaticGravPot is not  *)
(* NULL); twice holds the arrays that were handed to free a second time.   *)
(***************************************************************************)
ScratchArrays(dim, mhd, hcorr) ==
  IF dim = 2
  THEN (IF mhd THEN <<"emf3", "emf3_cc">> ELSE <<>>)
       \o (IF hcorr THEN <<"eta1", "eta2">> ELSE <<>>)
       \o <<"Bxc", "Bxi", "B1_x1Face", "B2_x2Face", "U1d", "Ul", "Ur", "W", "Wl", "Wr",
            "Ul_x1Face", "Ur_x1Face", "Ul_x2Face", "Ur_x2Face", "x1Flux", "x2Flux">>
  ELSE (IF mhd THEN <<"emf1", "emf2", "emf3", "emf1_cc", "emf2_cc", "emf3_cc">> ELSE <<>>)
       \o (IF hcorr THEN <<"eta1", "eta2", "eta3">> ELSE <<>>)
       \o <<"Bxc", "Bxi", "B1_x1Face", "B2_x2Face", "B3_x3Face", "U1d", "Ul", "Ur", "W", "Wl",
            "Wr", "Ul_x1Face", "Ur_x1Face", "Ul_x2Face", "Ur_x2Face", "Ul_x3Face", "Ur_x3Face",
            "x1Flux", "x2Flux", "x3Flux">>

ArraysOf(sc) == ScratchArrays(sc.dim, sc.MHD, sc.H_CORRECTION)

\* integrate_destruct_2d, integrate_destruct_3d: if (p != NULL) free(p);
integrate_destruct(sc) ==
  [sc EXCEPT !.ptr = [a \in DOMAIN sc.ptr |-> IF sc.ptr[a] = "NULL" THEN "NULL" ELSE "freed"],
             !.twice = sc.twice \cup {a \in DOMAIN sc.ptr : sc.ptr[a] = "freed"}]

\* the arrays integrate_init_2d, integrate_init_3d allocate, in order: dhalf
\* comes last, in a build without MHD only if a potential is enrolled
Attempted(sc) ==
  IF sc.MHD \/ sc.pot THEN Append(ArraysOf(sc), "dhalf") ELSE ArraysOf(sc)

\* integrate_init_2d, integrate_init_3d; the allocation number fail returns
\* NULL (0: none does), and then on_error tears down
integrate_init(sc, fail) ==
  LET list == Attempted(sc)
      pos(a) == IF \E n \in DOMAIN list : list[n] = a
                THEN CHOOSE n \in DOMAIN list : list[n] = a ELSE 0
      ptr == [a \in DOMAIN sc.ptr |->
                IF pos(a) = 0 THEN sc.ptr[a]
                ELSE IF fail = 0 \/ pos(a) < fail THEN "live"
                ELSE IF pos(a) = fail THEN "NULL" ELSE sc.ptr[a]]
  IN IF fail = 0 THEN [sc EXCEPT !.ptr = ptr]
     ELSE [integrate_destruct([sc EXCEPT !.ptr = ptr]) EXCEPT !.exited = TRUE]

ScratchGrid(dim) == CHOOSE G \in HGrids(dim) : \A t \in Dirs : G.hi[t] <= G.lo[t] + 1

\* the cells of dhalf a step writes (Step 7 of integrate_2d, Step 9 of
\* integrate_3d_ctu: if (dhalf != NULL)) and the cells it reads: for the
\* cell-centered EMFs in a build with MHD, for the gravity source of the
\* active cells if a potential is enrolled
DhalfUse(sc) ==
  LET G == ScratchGrid(sc.dim)
      one == IF sc.dim = 3 THEN 1 ELSE 0
      half == LoopBox(G, <<-1, -1, -one>>, <<1, 1, one>>)
  IN [ptr |-> sc.ptr["dhalf"],
      written |-> IF sc.ptr["dhalf"] # "NULL" THEN half ELSE {},
      read |-> (IF sc.MHD THEN half ELSE {})
               \cup (IF sc.pot THEN LoopBox(G, <<0, 0, 0>>, <<0, 0, 0>>) ELSE {})]

InitScratch ==
  /\ GridIdle
  /\ kern = None
  /\ \E dim \in {2, 3} : \E mhd \in BOOLEAN : \E hcorr \in BOOLEAN :
       scratch = [dim |-> dim, MHD |-> mhd, H_CORRECTION |-> hcorr, pot |-> FALSE,
                  ptr |-> [a \in { ScratchArrays(dim, mhd, hcorr)[n] :
                                     n \in DOMAIN ScratchArrays(dim, mhd, hcorr) } \cup {"dhalf"}
                             |-> "NULL"],
                  twice |-> {}, calls |-> 0, exited |-> FALSE, rd |-> None]

ScKeep == UNCHANGED <<kern, GridVars>>

\* freeing an array a second time is undefined: the program goes on or dies
AfterFree(sc) ==
  IF sc.twice = {} THEN {sc} ELSE {sc, [sc EXCEPT !.exited = TRUE]}

ScInit ==
  /\ ~scratch.exited /\ scratch.calls <= MaxCalls
  /\ \E fail \in 0..Len(Attempted(scratch)) :
       scratch' \in AfterFree([integrate_init(scratch, fail) EXCEPT
                                 !.calls = scratch.calls + 1, !.rd = None])
  /\ ScKeep

ScDestruct ==
  /\ ~scratch.exited /\ scratch.calls <= MaxCalls
  /\ scratch' \in AfterFree([integrate_destruct(scratch) EXCEPT
                               !.calls = scratch.calls + 1, !.rd = None])
  /\ ScKeep

\* the problem generator enrols a static potential
ScEnroll ==
  /\ ~scratch.exited /\ ~scratch.pot
  /\ scratch' = [scratch EXCEPT !.pot = TRUE, !.rd = None]
  /\ ScKeep

\* one step of the integrator, once its arrays are there; reading dhalf
\* through a NULL pointer ends the program
ScIntegrate ==
  /\ ~scratch.exited /\ scratch.rd = None
  /\ \A n \in DOMAIN ArraysOf(scratch) : scratch.ptr[ArraysOf(scratch)[n]] = "live"
  /\ LET rd == DhalfUse(scratch)
     IN scratch' = [scratch EXCEPT !.rd = rd,
                                   !.exited = (rd.read # {} /\ rd.ptr = "NULL")]
  /\ ScKeep

NextScratch == ScInit \/ ScDestruct \/ ScEnroll \/ ScIntegrate

SpecScratch == InitScratch /\ [][NextScratch]_vars

\* C28: for any sequence of initialisation and teardown calls every scratch
\* array is freed at most once: nothing is handed to free a second time
C28_FreedAtMostOnce ==
  scratch # None => scratch.twice = {}

\* what does hold: one initialisation followed by one teardown, or a failed
\* first initialisation, frees every array once
C28_FirstTeardown ==
  (scratch # None /\ scratch.calls <= 2) => scratch.twice = {}

\* C30: whenever a step reads dhalf, dhalf is allocated and was written in
\* the same step for every cell read, whether the potential was enrolled
\* before or after the integrator was initialised
C30_DhalfReady ==
  (scratch # None /\ scratch.rd # None /\ scratch.rd.read # {}) =>
    /\ scratch.rd.ptr = "live"
    /\ scratch.rd.read \subseteq scratch.rd.written

\* what does hold: the same in a build with MHD
C30_WithMHD ==
  (scratch # None /\ scratch.MHD /\ scratch.rd # None /\ scratch.rd.read # {}) =>
    /\ scratch.rd.ptr = "live"
    /\ scratch.rd.read \subseteq scratch.rd.written

(***************************************************************************)
(* The frame of set_bvals_mhd: what a boundary function or an unpacking    *)
(* leaves alone.  A rank r with pc[r] # 0 is inside set_bvals_mhd: its     *)
(* next step is a statement of that function.                              *)
(***************************************************************************)
BiAfter(r, a) == CASE a = 1 -> B1i'[r] [] a = 2 -> B2i'[r] [] OTHER -> B3i'[r]

\* the statement rank r is at is the reflecting function of the inner face
\* of direction a with flag 1, and c lies on that face
PrescribedFace(r, a, c) ==
  /\ AtOp(r, "apply")
  /\ CurOp(r).d = a /\ CurOp(r).side = "i"
  /\ boot[r].apply[2 * a - 1] = "reflect" /\ ibc(a) = 1
  /\ c[a] = is_d(r, a)

\* C29: no statement of set_bvals_mhd changes the cell-centered state U of
\* an active cell (i in is..ie, j in js..je, k in ks..ke); an interface
\* field stored at the indices of an active cell changes only on the
\* boundary face the function is for (the reflecting function with flag 1
\* zeroes the normal field at is), every other write goes to ghost indices.
C29_ActiveCellsKept ==
  [][\A r \in Ranks : \A c \in Cells(r) :
        (pc[r] # 0 /\ IsActive(r, c)) =>
          /\ U'[r][c] = U[r][c]
          /\ \A a \in Dirs :
                BiAfter(r, a)[c] # Bi(GridOf(r), a)[c] =>
                  PrescribedFace(r, a, c) /\ BiAfter(r, a)[c] = 0]_vars

\* a rank has been through a reflecting function with flag 1 and an
\* unpacking: ghost cells on both sides hold new values, B1i is zero on the
\* face at is, and every active cell holds its initial state
C29_Witness ==
  \E r \in Ranks :
    /\ AtEnd(r)
    /\ \E n \in DOMAIN log[r] : log[r][n].op = "apply" /\ log[r][n].d = 1
    /\ \E n \in DOMAIN log[r] : log[r][n].op = "recv" /\ log[r][n].d = 1
    /\ boot[r].apply[1] = "reflect" /\ ibc(1) = 1
    /\ \E c \in Cells(r) : InnerGhost(r, 1, c) /\ U[r][c] # InitGas(r, c)
    /\ \E c \in Cells(r) : OuterGhost(r, 1, c) /\ U[r][c] # InitGas(r, c)
    /\ \A c \in Cells(r) :
          IsActive(r, c) =>
            /\ U[r][c] = InitGas(r, c)
            /\ c[1] = is_d(r, 1) => B1i[r][c] = 0
            /\ c[1] # is_d(r, 1) => B1i[r][c] = InitValue(r, c, IndexIn(PackList, "B1i"))

====
